---- MODULE Spec2Model ----
(***************************************************************************)
(* The command interpreter of Tale (tale/base.py): Living.parse,           *)
(* Soul.parse, Soul.match_previously_parsed, Soul.check_name_with_spaces   *)
(* and the per-actor pronoun memory, as a state machine.                   *)
(*                                                                         *)
(* Strings are TLA+ strings; a command line is a sequence of chunks whose  *)
(* concatenation is the line: a chunk is a run of non-blank, non-quote     *)
(* characters, one blank " ", or one quote character.                      *)
(***************************************************************************)
EXTENDS Integers, Sequences, FiniteSets, TLC

VARIABLES
    livings,              \* Location.livings of the actor's location
    items,                \* Location.items of the actor's location
    exits,                \* Location.exits of the actor's location
    inventory,            \* the actor's Living.__inventory
    previously_parsed,    \* Soul.__previously_parsed of the actor's soul
    previous_parse,       \* Living._previous_parse of the actor
    previous_commandline, \* Living.previous_commandline of the actor
    outcome,              \* what the last call of Living.parse did
    before,               \* the two memory cells as they were when that call began
    told,                 \* what that call told the actor (player.tell)
    calls,                \* number of Living.parse calls so far
    lookup,               \* a call of Soul.check_name_with_spaces and what it returned
    social,               \* what the last call of Living.do_socialize did
    previous_call,        \* history: the call of Living.parse before the last one
    door,                 \* a Door, the door paired with it, and the last call on them
    place,                \* who holds the book, where bob is, and the last move call
    second                \* a second actor, bob: his memory cells and his last call of Living.parse

world == <<livings, items, exits, inventory>>
cells == <<previously_parsed, previous_parse, previous_commandline>>
call == <<outcome, before, told, calls>>
aside == <<lookup, social, previous_call, door, place, second>>
aside_but_place == <<lookup, social, previous_call, door, second>>
vars == <<world, cells, call, aside>>

\* ------------------------------------------------------------------------
\* Bounds of the model
\* ------------------------------------------------------------------------
MaxWords == 3         \* words of a command line, one call of a fresh actor
MaxCalls == 1         \* calls of Living.parse, fresh actor
MaxExceptWords == 5   \* words of a command line about "everyone" and "except"
MaxSessionWords == 3  \* words of a command line in a session of several calls
MaxSessionCalls == 2  \* calls of Living.parse in a session
MaxNameWords == 3     \* words given to check_name_with_spaces
MaxQuotePieces == 4    \* pieces after the first word of a line with quotes
MaxSocialWords == 5   \* words of a command line given to do_socialize
MaxPersonWords == 3   \* words of a command line whose verb may need a person
MaxKindFirstWords == 2 \* words of the first command line when targets are classified
MaxKindWords == 5     \* words of a later command line when targets are classified
MaxAgainWords == 2    \* words of a command line when lines are repeated
MaxAgainCalls == 3    \* calls of Living.parse when lines are repeated
MaxAttackWords == 3   \* words of a command line given to do_socialize among aggressive livings
MaxRenderWords == 3   \* words of a command line that is parsed, then rendered
MaxRenderCalls == 2   \* calls of Living.parse between which the result is rendered
MaxTwiceWords == 2    \* words of a command line that is parsed again
MaxTwiceCalls == 3    \* calls of Living.parse when lines are parsed again
MaxNameKeys == 2      \* keys of the dictionary given to check_name_with_spaces
MaxLongWords == 7     \* words of a long name given to check_name_with_spaces

\* ------------------------------------------------------------------------
\* Python values
\* ------------------------------------------------------------------------
None == "<None>"

Range(f) == {f[x] : x \in DOMAIN f}

RECURSIVE SeqsUpTo(_, _)
SeqsUpTo(S, n) ==
    IF n = 0 THEN {<<>>}
    ELSE LET shorter == SeqsUpTo(S, n - 1)
         IN  shorter \cup {Append(s, x) : s \in {t \in shorter : Len(t) = n - 1}, x \in S}

\* ------------------------------------------------------------------------
\* The world: the objects of the story (MudObject and its subclasses)
\* ------------------------------------------------------------------------
Actor == "o_dave"
AllLivings == {"o_dave", "o_alice", "o_bob", "o_carol"}
AllItems == {"o_book"}
AllExits == {"o_north", "o_gate", "o_door"}
Entities == AllLivings \cup AllItems \cup AllExits

IsLiving(e) == e \in AllLivings
IsItem(e) == e \in AllItems
IsExit(e) == e \in AllExits

\* MudObject.name (init_names) and, for an exit, its first direction
NameOf == [e \in Entities |->
    CASE e = "o_dave" -> "dave"
      [] e = "o_alice" -> "alice"
      [] e = "o_bob" -> "bob"
      [] e = "o_carol" -> "carol"
      [] e = "o_book" -> "book"
      [] e = "o_north" -> "north"
      [] e = "o_gate" -> "north gate"
      [] e = "o_door" -> "door"]

\* MudObject.aliases
AliasesOf == [e \in Entities |->
    CASE e = "o_bob" -> {"bobby"}
      [] e = "o_book" -> {"old book"}
      [] e = "o_north" -> {"n"}
      [] e = "o_door" -> {"north", "d"}
      [] OTHER -> {}]

\* MudObject.title (init_names: the title defaults to the name)
TitleOf == [e \in Entities |->
    CASE e = "o_dave" -> "Dave"
      [] e = "o_alice" -> "Alice"
      [] e = "o_bob" -> "Bob"
      [] e = "o_carol" -> "Carol"
      [] e = "o_north" -> "Exit to Garden"
      [] e = "o_gate" -> "Exit to Street"
      [] e = "o_door" -> "Exit to Cellar"
      [] OTHER -> NameOf[e]]

\* Living.gender as given to the constructor; "n" is the class default
GenderOf == [e \in Entities |->
    CASE e = "o_dave" -> "m"
      [] e = "o_alice" -> "f"
      [] e = "o_bob" -> "m"
      [] e = "o_carol" -> "f"
      [] OTHER -> "n"]

\* lang.SUBJECTIVE, lang.POSSESSIVE, lang.OBJECTIVE
SUBJECTIVE == [g \in {"m", "f", "n"} |-> CASE g = "m" -> "he" [] g = "f" -> "she" [] OTHER -> "it"]
POSSESSIVE == [g \in {"m", "f", "n"} |-> CASE g = "m" -> "his" [] g = "f" -> "her" [] OTHER -> "its"]
OBJECTIVE == [g \in {"m", "f", "n"} |-> CASE g = "m" -> "him" [] g = "f" -> "her" [] OTHER -> "it"]

Subjective(e) == SUBJECTIVE[GenderOf[e]]
Possessive(e) == POSSESSIVE[GenderOf[e]]
Objective(e) == OBJECTIVE[GenderOf[e]]

\* default_verb: set by Living.__init__ and Item.init, absent on an Exit
HasDefaultVerb(e) == IsLiving(e) \/ IsItem(e)
DefaultVerbOf(e) == IF e = "o_book" THEN "read" ELSE "examine"

\* Location.exits of the actor's location: direction -> Exit (Exit.bind)
LocationExits ==
    [d \in {"north", "n", "north gate"} |->
        IF d = "north gate" THEN "o_gate" ELSE "o_north"]

\* the order in which Python iterates the dict Location.exits
ExitsOrder == <<"north", "n", "north gate">>

\* a variant in which the order changes from one call to the next
LivingsOrderByCall ==
    IF calls % 2 = 0 THEN <<"o_carol", "o_dave", "o_alice", "o_bob">>
    ELSE <<"o_bob", "o_alice", "o_dave", "o_carol">>

\* the order in which Python iterates the set Location.livings
LivingsOrder == <<"o_carol", "o_dave", "o_alice", "o_bob">>

\* ------------------------------------------------------------------------
\* verbdefs and lang: the static tables the interpreter consumes
\* ------------------------------------------------------------------------
\* verbdefs.VERBS: verb -> <<kind, defaults, template, ...>>; a template is
\* the sequence of its blank-separated pieces
VERBS ==
    [v \in {"wave", "smile", "tell", "kick", "ayt"} |->
        CASE v = "wave" -> <<"DEFA", <<>>, <<>>, <<"at">>>>
          [] v = "smile" -> <<"DEFA", <<>>, <<>>, <<"at">>>>
          [] v = "tell" -> <<"SIMP", <<>>, <<"tell$", "\\nWHO", "\\nMSG">>>>
          [] v = "kick" -> <<"PHYS", <<>>, <<>>>>
          [] v = "ayt" -> <<"DEUX", <<>>,
                            <<"wave", "your", "hand", "in", "front", "of", "\\nPOSS", "face">>,
                            <<"waves", "\\nYOUR", "hand", "in", "front", "of", "\\nPOSS", "face">>>>]

ACTION_QUALIFIERS == {"suddenly", "fail", "dont", "don't"}
BODY_PARTS == [b \in {"nose", "hand"} |-> IF b = "nose" THEN "on the nose" ELSE "on the hand"]
MOVEMENT_VERBS == {"go", "walk"}
NONLIVING_OK_VERBS == {"kick"}
AGGRESSIVE_VERBS == {"kick"}
NEGATING_QUALIFIERS == {"fail", "dont", "don't"}
ADVERBS == {"happily", "sadly", "slowly"}

\* lang.adverb_by_prefix on the words of the model
adverb_by_prefix(word) ==
    CASE word = "hap" -> <<"happily">>
      [] word = "s" -> <<"sadly", "slowly">>
      [] word = "" -> <<"happily", "sadly", "slowly">>
      [] word \in ADVERBS -> <<word>>
      [] OTHER -> <<>>

\* lang.capital on the words of the model
Capital(word) ==
    CASE word = "go" -> "Go"
      [] word = "walk" -> "Walk"
      [] word = "he" -> "He"
      [] word = "she" -> "She"
      [] word = "it" -> "It"
      [] OTHER -> word

\* Soul._skip_words
skip_words == {"and", "&", "at", "to", "before", "in", "into", "on", "off", "onto",
               "the", "with", "from", "after", "under", "above", "next"}

\* ------------------------------------------------------------------------
\* str operations, on the words of the model
\* ------------------------------------------------------------------------
\* word.rstrip(",")
RStripComma(word) ==
    CASE word = "bob," -> "bob"
      [] word = "alice," -> "alice"
      [] word = "xyzzy," -> "xyzzy"
      [] word = "," -> ""
      [] OTHER -> word

\* name.startswith(word)
StartsWith(name, word) ==
    \/ word = ""
    \/ word = name
    \/ <<word, name>> \in {<<"bo", "bob">>, <<"bo", "bobby">>, <<"bob", "bobby">>,
                           <<"bo", "book">>, <<"al", "alice">>, <<"s", "sadly">>,
                           <<"s", "slowly">>, <<"hap", "happily">>}

\* word[0].isupper() and word.lower()
IsUpperFirst(word) == word \in {"Bob", "Xyzzy"}
Lower(word) == CASE word = "Bob" -> "bob" [] word = "Xyzzy" -> "xyzzy" [] OTHER -> word

IsBlank(chunk) == chunk = " "
IsQuote(chunk) == chunk \in {"'", "\""}

\* " ".join(words), as chunks
RECURSIVE JoinWords(_)
JoinWords(words) ==
    IF words = <<>> THEN <<>>
    ELSE IF Len(words) = 1 THEN <<words[1]>>
    ELSE <<words[1], " ">> \o JoinWords(Tail(words))

\* cmd.split(): the maximal runs of non-blank chunks, each run concatenated
RECURSIVE SplitFrom(_, _, _)
SplitFrom(chunks, i, cur) ==
    IF i > Len(chunks) THEN (IF cur = "" THEN <<>> ELSE <<cur>>)
    ELSE IF IsBlank(chunks[i])
         THEN (IF cur = "" THEN <<>> ELSE <<cur>>) \o SplitFrom(chunks, i + 1, "")
         ELSE SplitFrom(chunks, i + 1, cur \o chunks[i])

Split(chunks) == SplitFrom(chunks, 1, "")

\* A string of which a prefix was sliced off: the chunks that are left, the
\* first of them without its first `cut` characters.
Str(chunks) == [cut |-> 0, rest |-> chunks]

\* s[n:]
RECURSIVE Slice(_, _)
Slice(s, n) ==
    IF s.rest = <<>> \/ n = 0 THEN s
    ELSE LET left == Len(Head(s.rest)) - s.cut
         IN  IF n < left THEN [s EXCEPT !.cut = @ + n]
             ELSE Slice([cut |-> 0, rest |-> Tail(s.rest)], n - left)

\* s.lstrip()
RECURSIVE LStrip(_)
LStrip(s) ==
    IF s.rest # <<>> /\ s.cut = 0 /\ IsBlank(Head(s.rest))
    THEN LStrip([cut |-> 0, rest |-> Tail(s.rest)])
    ELSE s

\* " ".join(strings), as one string
RECURSIVE JoinStr(_)
JoinStr(strs) ==
    IF strs = <<>> THEN ""
    ELSE IF Len(strs) = 1 THEN strs[1]
    ELSE strs[1] \o " " \o JoinStr(Tail(strs))

\* "".join(chunks)
RECURSIVE Concat(_)
Concat(chunks) == IF chunks = <<>> THEN "" ELSE Head(chunks) \o Concat(Tail(chunks))

\* s.strip(), on chunks
RECURSIVE StripChunks(_)
StripChunks(chunks) ==
    IF chunks = <<>> THEN <<>>
    ELSE IF IsBlank(Head(chunks)) THEN StripChunks(Tail(chunks))
    ELSE IF IsBlank(chunks[Len(chunks)]) THEN StripChunks(SubSeq(chunks, 1, Len(chunks) - 1))
    ELSE chunks

\* the objects of a set in the order Python iterates it
InOrder(order, set) == SelectSeq(order, LAMBDA e : e \in set)

\* ------------------------------------------------------------------------
\* Exceptions and results
\* ------------------------------------------------------------------------
NoExc == [kind |-> "none", msg |-> <<>>, verb |-> None, words |-> <<>>, qualifier |-> None]

\* errors.ParseError(msg); msg is the format string followed by its values
ParseError(msg) ==
    [kind |-> "ParseError", msg |-> msg, verb |-> None, words |-> <<>>, qualifier |-> None]

\* errors.UnknownVerbException(verb, words, qualifier)
UnknownVerbException(verb, words, qualifier) ==
    [kind |-> "UnknownVerbException", msg |-> <<>>, verb |-> verb, words |-> words,
     qualifier |-> qualifier]

\* errors.ActionRefused(msg)
ActionRefused(msg) ==
    [kind |-> "ActionRefused", msg |-> msg, verb |-> None, words |-> <<>>, qualifier |-> None]

\* an exception of Python itself, not of tale.errors
BuiltinError(kind, what) ==
    [kind |-> kind, msg |-> <<what>>, verb |-> None, words |-> <<>>, qualifier |-> None]

EmptyDict == [k \in {} |-> None]

\* ParseResult.WhoInfo
WhoInfo(sequence, previous_word) == [sequence |-> sequence, previous_word |-> previous_word]

\* ParseResult(verb, ...): the fields as given, the others empty
ParseResult(verb, who_info, who_order, adverb, message, bodypart, qualifier, args, unrecognized, unparsed) ==
    [verb |-> verb, who_info |-> who_info, who_order |-> who_order, adverb |-> adverb,
     message |-> message, bodypart |-> bodypart, qualifier |-> qualifier, args |-> args,
     unrecognized |-> unrecognized, unparsed |-> unparsed]

NoResult == ParseResult(None, EmptyDict, <<>>, None, "", None, None, <<>>, <<>>, Str(<<>>))

\* ------------------------------------------------------------------------
\* Soul.check_name_with_spaces
\* ------------------------------------------------------------------------
NameWordLimit == 6

NoMatch == [obj |-> None, name |-> None, wordcount |-> 0]

RECURSIVE CheckNameLoop(_, _, _, _, _, _)
CheckNameLoop(words, index, all_livings, all_items, name, wordcount) ==
    IF wordcount < NameWordLimit
    THEN IF name \in DOMAIN all_livings
         THEN [obj |-> all_livings[name], name |-> name, wordcount |-> wordcount]
         ELSE IF name \in DOMAIN all_items
         THEN [obj |-> all_items[name], name |-> name, wordcount |-> wordcount]
         ELSE IF index + wordcount > Len(words)
         THEN NoMatch   \* IndexError: the words are exhausted
         ELSE CheckNameLoop(words, index, all_livings, all_items,
                            name \o " " \o words[index + wordcount], wordcount + 1)
    ELSE NoMatch

\* a variant that prefers the longest run of words that is a key
check_name_longest(words, index, all_livings, all_items) ==
    LET run(n) == JoinStr(SubSeq(words, index, index + n - 1))
        hits == {n \in 1..(Len(words) - index + 1) :
                    n < NameWordLimit /\ run(n) \in DOMAIN all_livings \cup DOMAIN all_items}
    IN  IF hits = {} THEN NoMatch
        ELSE LET n == CHOOSE a \in hits : \A b \in hits : a >= b
             IN  [obj |-> IF run(n) \in DOMAIN all_livings THEN all_livings[run(n)]
                          ELSE all_items[run(n)],
                  name |-> run(n), wordcount |-> n]

\* index counts from 1 here, from 0 in the source
check_name_with_spaces(words, index, all_livings, all_items) ==
    CheckNameLoop(words, index, all_livings, all_items, words[index], 1)

\* ------------------------------------------------------------------------
\* The dictionaries Soul.parse builds before the token walk
\* ------------------------------------------------------------------------
\* d[obj.name] = obj, then d[alias] = obj for every alias, object after object
RECURSIVE DictByName(_)
DictByName(objs) ==
    IF objs = <<>> THEN EmptyDict
    ELSE LET n == Len(objs)
             earlier == DictByName(SubSeq(objs, 1, n - 1))
             keys == {NameOf[objs[n]]} \cup AliasesOf[objs[n]]
         IN  [k \in DOMAIN earlier \cup keys |-> IF k \in keys THEN objs[n] ELSE earlier[k]]

\* the keys of such a dictionary in insertion order
RECURSIVE KeysInOrder(_)
KeysInOrder(objs) ==
    IF objs = <<>> THEN <<>>
    ELSE LET o == Head(objs)
             aliases == AliasesOf[o]
             RECURSIVE SeqOf(_)
             SeqOf(S) == IF S = {} THEN <<>>
                         ELSE LET x == CHOOSE y \in S : TRUE IN <<x>> \o SeqOf(S \ {x})
         IN  <<NameOf[o]>> \o SeqOf(aliases) \o KeysInOrder(Tail(objs))

ItemsOrder == <<"o_book">>

\* ------------------------------------------------------------------------
\* Living.search_item / Living.locate_item / Item.search_item
\* ------------------------------------------------------------------------
\* Item.search_item(name, collection): by name, else by alias or title
ItemSearch(name, collection) ==
    LET byname == {i \in collection : NameOf[i] = Lower(name)}
        other == {i \in collection : Lower(name) \in AliasesOf[i] \/ Lower(TitleOf[i]) = Lower(name)}
    IN  IF byname # {} THEN byname ELSE other

\* Living.search_item(name): is an item found (inventory first, then the
\* location; no item of the story is a container)
search_item(c, name) ==
    \/ ItemSearch(name, c.inventory) # {}
    \/ ItemSearch(name, c.items) # {}

\* ------------------------------------------------------------------------
\* Soul.match_previously_parsed
\* ------------------------------------------------------------------------
\* a variant that forgets "or who in player.location.livings"
ReachableItem(c, who) == search_item(c, NameOf[who])

Reachable(c, who) == search_item(c, NameOf[who]) \/ who \in c.livings

Matched(who_list, lines) == [exc |-> NoExc, who_list |-> who_list, told |-> lines]

\* a variant in which a failure takes back what was told
MatchFailedUntold(e, lines) == [exc |-> e, who_list |-> <<>>, told |-> <<>>]

\* a ParseError raised, after the lines told
MatchFailed(e, lines) == [exc |-> e, who_list |-> <<>>, told |-> lines]

\* a variant that takes "them" to be the first previous target only
MatchThemFirst(c, pronoun) ==
    IF c.mem[1].who_order = <<>>
    THEN MatchFailed(ParseError(<<"It is not clear who you're referring to.">>), <<>>)
    ELSE Matched(<<<<c.mem[1].who_order[1], NameOf[c.mem[1].who_order[1]]>>>>, <<>>)

\* the branch for "them" (lines 1915-1926)
MatchThem(c, pronoun) ==
    LET matches == c.mem[1].who_order
        gone == {i \in 1..Len(matches) : ~Reachable(c, matches[i])}
    IN  IF gone # {}
        THEN LET who == matches[CHOOSE i \in gone : \A j \in gone : i <= j]
             IN  MatchFailed(
                    ParseError(<<"%s is no longer around.", Capital(Subjective(who))>>),
                    <<<<"<dim>(By '%s', it is assumed you meant %s.)</>", pronoun, TitleOf[who]>>>>)
        ELSE IF matches # <<>>
        THEN Matched([i \in 1..Len(matches) |-> <<matches[i], NameOf[matches[i]]>>],
                     <<<<"<dim>(By '%s', it is assumed you mean: %s.)", pronoun>>
                        \o [i \in 1..Len(matches) |-> TitleOf[matches[i]]]>>)
        ELSE MatchFailed(ParseError(<<"It is not clear who you're referring to.">>), <<>>)

\* a variant that passes over a previous target that is no longer in reach
RECURSIVE MatchOneInReach(_, _, _)
MatchOneInReach(c, pronoun, i) ==
    IF i > Len(c.mem[1].who_order)
    THEN MatchFailed(ParseError(<<"It is not clear who you're referring to.">>), <<>>)
    ELSE LET who == c.mem[1].who_order[i]
             directions == SelectSeq(ExitsOrder,
                               LAMBDA d : d \in DOMAIN c.exits /\ c.exits[d] = who)
         IN  IF pronoun = "it" /\ directions # <<>>
             THEN Matched(<<<<who, directions[1]>>>>, <<>>)
             ELSE IF pronoun = Objective(who) /\ Reachable(c, who)
             THEN Matched(<<<<who, NameOf[who]>>>>, <<>>)
             ELSE MatchOneInReach(c, pronoun, i + 1)

\* the loop over the previous targets for "it", "him", "her" (lines 1927-1941)
RECURSIVE MatchOne(_, _, _)
MatchOne(c, pronoun, i) ==
    IF i > Len(c.mem[1].who_order)
    THEN MatchFailed(ParseError(<<"It is not clear who you're referring to.">>), <<>>)
    ELSE LET who == c.mem[1].who_order[i]
             directions == SelectSeq(ExitsOrder,
                               LAMBDA d : d \in DOMAIN c.exits /\ c.exits[d] = who)
         IN  IF pronoun = "it" /\ directions # <<>>
             THEN Matched(<<<<who, directions[1]>>>>,
                          <<<<"<dim>(By '%s', it is assumed you mean '%s'.)</>", pronoun, directions[1]>>>>)
             ELSE IF pronoun = Objective(who)
             THEN IF Reachable(c, who)
                  THEN Matched(<<<<who, NameOf[who]>>>>,
                               <<<<"<dim>(By '%s', it is assumed you mean %s.)</>", pronoun, TitleOf[who]>>>>)
                  ELSE MatchFailed(
                          ParseError(<<"%s is no longer around.", Capital(Subjective(who))>>),
                          <<<<"<dim>(By '%s', it is assumed you meant %s.)</>", pronoun, TitleOf[who]>>>>)
             ELSE MatchOne(c, pronoun, i + 1)

match_previously_parsed(c, pronoun) ==
    IF pronoun = "them" THEN MatchThem(c, pronoun) ELSE MatchOne(c, pronoun, 1)

\* ------------------------------------------------------------------------
\* Soul.parse: the token walk (lines 1697-1887)
\* ------------------------------------------------------------------------
Raise(s, e) == [s EXCEPT !.exc = e]

\* list.remove(x): the first occurrence goes
RemoveFirst(seq, x) ==
    LET first == CHOOSE i \in 1..Len(seq) : seq[i] = x /\ \A j \in 1..(i - 1) : seq[j] # x
    IN  SubSeq(seq, 1, first - 1) \o SubSeq(seq, first + 1, Len(seq))

InSeq(seq, x) == \E i \in 1..Len(seq) : seq[i] = x

\* who_info[who].sequence = who_sequence; who_info[who].previous_word = previous_word;
\* who_sequence += 1; who_order.append(who)
\* who_info is a defaultdict until an excluding "everyone" replaces it by a dict
WhoAdd(s, who) ==
    IF s.plain /\ who \notin DOMAIN s.who_info
    THEN Raise(s, BuiltinError("KeyError", who))
    ELSE [s EXCEPT !.who_info = [k \in DOMAIN s.who_info \cup {who} |->
                                    IF k = who THEN WhoInfo(s.who_sequence, s.previous_word)
                                    ELSE s.who_info[k]],
                   !.who_sequence = @ + 1,
                   !.who_order = Append(@, who)]

\* del who_info[who]; who_order.remove(who)
WhoDelete(s, who) ==
    IF who \notin DOMAIN s.who_info THEN Raise(s, BuiltinError("KeyError", who))
    ELSE IF ~InSeq(s.who_order, who) THEN Raise(s, BuiltinError("ValueError", who))
    ELSE [s EXCEPT !.who_info = [k \in DOMAIN s.who_info \ {who} |-> s.who_info[k]],
                   !.who_order = RemoveFirst(@, who)]

\* a variant that forgets the exclusion after "except": every mention adds
WhoAddAlways(s, who) == WhoAdd(s, who)

\* if include_flag: add; elif who in who_info: delete
WhoAddOrRemove(s, who) ==
    IF s.include_flag THEN WhoAdd(s, who)
    ELSE IF who \in DOMAIN s.who_info THEN WhoDelete(s, who)
    ELSE s

\* a name, an alias, or a name of several words (lines 1789-1814, 1829-1843)
NamedTarget(s, who, name) ==
    LET r == WhoAddOrRemove(s, who)
    IN  IF r.exc # NoExc THEN r
        ELSE [r EXCEPT !.arg_words = Append(@, name), !.previous_word = None]

\* "me", "myself", "self" (lines 1741-1752)
MeTarget(c, s, word) == NamedTarget(s, c.player, word)

\* the loop over the resolved pronoun's referents (lines 1728-1737)
RECURSIVE PronounLoop(_, _, _)
PronounLoop(s, who_list, i) ==
    IF i > Len(who_list) \/ s.exc # NoExc THEN s
    ELSE LET who == who_list[i][1]
             name == who_list[i][2]
             r == IF s.include_flag THEN WhoAdd(s, who) ELSE WhoDelete(s, who)
         IN  IF r.exc # NoExc THEN r
             ELSE PronounLoop([r EXCEPT !.arg_words = Append(@, name)], who_list, i + 1)

\* "them", "him", "her", "it" (lines 1723-1740)
PronounTarget(c, s, word) ==
    IF c.mem # <<>>
    THEN LET m == match_previously_parsed(c, word)
             heard == [s EXCEPT !.told = @ \o m.told]
         IN  IF m.exc # NoExc THEN Raise(heard, m.exc)
             ELSE LET r == PronounLoop(heard, m.who_list, 1)
                  IN  IF r.exc # NoExc THEN r ELSE [r EXCEPT !.previous_word = None]
    ELSE Raise(s, ParseError(<<"It is not clear who you mean.">>))

\* a body part (lines 1753-1758)
BodyPartWord(s, word) ==
    IF s.bodypart # None
    THEN Raise(s, ParseError(<<"You can't do that both %s and %s.", BODY_PARTS[s.bodypart], BODY_PARTS[word]>>))
    ELSE [s EXCEPT !.bodypart = word, !.arg_words = Append(@, word)]

\* the livings added by an including "everyone" (lines 1764-1769)
RECURSIVE EveryoneLoop(_, _, _, _)
EveryoneLoop(c, s, order, i) ==
    IF i > Len(order) \/ s.exc # NoExc THEN s
    ELSE IF order[i] = c.player THEN EveryoneLoop(c, s, order, i + 1)
    ELSE EveryoneLoop(c, WhoAdd(s, order[i]), order, i + 1)

\* "everyone", "everybody", "all" (lines 1759-1776)
EveryoneWord(c, s, word) ==
    IF s.include_flag
    THEN IF DOMAIN c.all_livings = {}
         THEN Raise(s, ParseError(<<"There is nobody here.">>))
         ELSE LET r == EveryoneLoop(c, s, InOrder(LivingsOrder, c.livings), 1)
              IN  IF r.exc # NoExc THEN r
                  ELSE [r EXCEPT !.arg_words = Append(@, word), !.previous_word = None]
    ELSE [s EXCEPT !.who_info = EmptyDict, !.plain = TRUE, !.who_order = <<>>,
                   !.who_sequence = 0,
                   !.arg_words = Append(@, word), !.previous_word = None]

\* "except", "but" (lines 1779-1782)
ExceptWord(s, word) ==
    [s EXCEPT !.include_flag = ~@, !.arg_words = Append(@, word)]

\* an adverb (lines 1783-1788)
AdverbWord(s, word) ==
    IF s.adverb # None
    THEN Raise(s, ParseError(<<"You can't do that both %s and %s.", s.adverb, word>>))
    ELSE [s EXCEPT !.adverb = word, !.arg_words = Append(@, word)]

\* an exit of the location, by a direction of one or more words (lines 1815-1827)
ExitTarget(s, m) ==
    LET r == WhoAdd(s, m.obj)
    IN  IF r.exc # NoExc THEN r
        ELSE [r EXCEPT !.previous_word = None, !.arg_words = Append(@, m.name),
                       !.skip = m.wordcount - 1]

\* a living or item whose name has several words (lines 1828-1843)
LongNameTarget(s, m) ==
    LET r == NamedTarget(s, m.obj, m.name)
    IN  IF r.exc # NoExc THEN r ELSE [r EXCEPT !.skip = m.wordcount - 1]

\* a variant that takes the word as message and does not switch to collecting
StartMessageOnly(s, word) ==
    [s EXCEPT !.message = Append(@, word), !.arg_words = Append(@, word)]

\* the first word of a message (lines 1844-1848)
StartMessage(s, word) ==
    [s EXCEPT !.collect_message = TRUE, !.message = Append(@, word),
              !.arg_words = Append(@, word)]

\* a word of the message (lines 1716-1720)
CollectWord(s, word) ==
    [s EXCEPT !.message = Append(@, word), !.arg_words = Append(@, word),
              !.previous_word = word]

\* the first key of the dictionaries the word is a prefix of (lines 1852-1857)
PrefixOf(c, word) ==
    SelectSeq(c.living_keys \o c.item_keys, LAMBDA name : StartsWith(name, word))

\* a variant that reports the first word of the line instead of the word at hand
UnknownFirstWord(s, word, words) ==
    Raise(s, UnknownVerbException(words[1], words, s.qualifier))

\* raise UnknownVerbException(word, words, qualifier) (line 1860)
UnknownWord(s, word, words) ==
    Raise(s, UnknownVerbException(word, words, s.qualifier))

\* a variant that keeps the word as unrecognized whatever the verb is
UnrecognizedWordKept(c, s, word, words) ==
    [s EXCEPT !.unrecognized_words = Append(@, word), !.previous_word = word]

\* a word that is none of the above and no skip word (lines 1849-1887)
UnrecognizedWord(c, s, word, words) ==
    IF s.who_order = <<>> /\ PrefixOf(c, word) # <<>>
    THEN Raise(s, ParseError(<<"Perhaps you meant %s?", PrefixOf(c, word)[1]>>))
    ELSE IF ~s.external_verb /\ s.verb = None
    THEN UnknownWord(s, word, words)
    ELSE IF ~s.external_verb /\ Len(adverb_by_prefix(word)) = 1
    THEN LET adv == adverb_by_prefix(word)[1]
         IN  IF s.adverb # None
             THEN Raise(s, ParseError(<<"You can't do that both %s and %s.", s.adverb, adv>>))
             ELSE [s EXCEPT !.adverb = adv, !.arg_words = Append(@, adv),
                            !.previous_word = adv]
    ELSE IF ~s.external_verb /\ Len(adverb_by_prefix(word)) > 1
    THEN Raise(s, ParseError(<<"What adverb did you mean: %s?">> \o adverb_by_prefix(word)))
    ELSE IF s.external_verb
    THEN [s EXCEPT !.arg_words = Append(@, word), !.unrecognized_words = Append(@, word),
                   !.previous_word = word]
    ELSE IF word \in DOMAIN VERBS \/ word \in ACTION_QUALIFIERS \/ word \in DOMAIN BODY_PARTS
    THEN Raise(s, ParseError(<<"The word %s makes no sense at that location.", word>>))
    ELSE IF word = ""
    THEN Raise(s, BuiltinError("IndexError", "string index out of range"))
    ELSE IF IsUpperFirst(word)
    THEN Raise(s, ParseError(<<"It's not clear what you mean by '%s'. Just type in lowercase ('%s').",
                               word, Lower(word)>>))
    ELSE Raise(s, ParseError(<<"It's not clear what you mean by '%s'.", word>>))

\* one round of the loop over the words (lines 1715-1887); index counts from 1
WalkWord(c, s, words, index) ==
    IF s.collect_message THEN CollectWord(s, words[index])
    ELSE
    LET word == IF ~s.message_verb THEN RStripComma(words[index]) ELSE words[index]
    IN  IF word \in {"them", "him", "her", "it"} THEN PronounTarget(c, s, word)
        ELSE IF word \in {"me", "myself", "self"} THEN MeTarget(c, s, word)
        ELSE IF word \in DOMAIN BODY_PARTS THEN BodyPartWord(s, word)
        ELSE IF word \in {"everyone", "everybody", "all"} THEN EveryoneWord(c, s, word)
        ELSE IF word = "everything"
        THEN Raise(s, ParseError(<<"You can't do something to everything around you, be more specific.">>))
        ELSE IF word \in {"except", "but"} THEN ExceptWord(s, word)
        ELSE IF word \in ADVERBS THEN AdverbWord(s, word)
        ELSE IF word \in DOMAIN c.all_livings THEN NamedTarget(s, c.all_livings[word], word)
        ELSE IF word \in DOMAIN c.all_items THEN NamedTarget(s, c.all_items[word], word)
        ELSE
        LET x == check_name_with_spaces(words, index, c.exits, EmptyDict)
        IN  IF x.obj # None THEN ExitTarget(s, x)
            ELSE
            LET n == check_name_with_spaces(words, index, c.all_livings, c.all_items)
            IN  IF n.obj # None THEN LongNameTarget(s, n)
                ELSE IF s.message_verb /\ s.message = <<>> THEN StartMessage(s, word)
                ELSE IF word \notin skip_words THEN UnrecognizedWord(c, s, word, words)
                ELSE [s EXCEPT !.previous_word = word]

\* for index, word in words_enumerator; next(words_enumerator) skips a word
RECURSIVE Walk(_, _, _, _)
Walk(c, s, words, index) ==
    IF index > Len(words) \/ s.exc # NoExc THEN s
    ELSE IF s.skip > 0 THEN Walk(c, [s EXCEPT !.skip = @ - 1], words, index + 1)
    ELSE Walk(c, WalkWord(c, s, words, index), words, index + 1)

\* ------------------------------------------------------------------------
\* Soul.parse: before and after the token walk
\* ------------------------------------------------------------------------
\* what a call of Soul.parse does: it returns a ParseResult (kind "returned")
\* or raises; NonSoulVerb carries a ParseResult; told is what the actor was told
Returned(result, lines) == [kind |-> "returned", result |-> result, exc |-> NoExc, told |-> lines]
Raised(e, lines) == [kind |-> e.kind, result |-> NoResult, exc |-> e, told |-> lines]
NonSoulVerb(result, lines) ==
    [kind |-> "NonSoulVerb", result |-> result,
     exc |-> [NoExc EXCEPT !.kind = "NonSoulVerb"], told |-> lines]

\* Soul._quoted_message_regex.search(cmd): the leftmost quote character that
\* has a later quote character of its kind, up to the last one of that kind
QuotedMessage(cmd) ==
    LET closes(i) == {j \in (i + 1)..Len(cmd) : cmd[j] = cmd[i]}
        starts == {i \in 1..Len(cmd) : IsQuote(cmd[i]) /\ closes(i) # {}}
    IN  IF starts = {} THEN [found |-> FALSE, start |-> 0, end |-> 0, quote |-> "", text |-> <<>>]
        ELSE LET i == CHOOSE a \in starts : \A b \in starts : a <= b
                 j == CHOOSE a \in closes(i) : \A b \in closes(i) : a >= b
             IN  [found |-> TRUE, start |-> i, end |-> j, quote |-> cmd[i],
                  text |-> SubSeq(cmd, i + 1, j - 1)]

\* "\nMSG" in verbdata or "\nWHAT" in verbdata, verbdata = VERBS[verb][2]
IsMessageVerb(verb) ==
    LET verbdata == VERBS[verb][3]
    IN  \E i \in 1..Len(verbdata) : verbdata[i] \in {"\\nMSG", "\\nWHAT"}

\* the local variables of Soul.parse at the start of the token walk
WalkStart(verb, external_verb, message_verb, qualifier, message) ==
    [verb |-> verb, external_verb |-> external_verb, message_verb |-> message_verb,
     qualifier |-> qualifier, adverb |-> None, message |-> message, bodypart |-> None,
     arg_words |-> <<>>, unrecognized_words |-> <<>>, who_info |-> EmptyDict,
     plain |-> FALSE, who_order |-> <<>>, who_sequence |-> 0, include_flag |-> TRUE,
     collect_message |-> FALSE, previous_word |-> None, skip |-> 0, told |-> <<>>,
     exc |-> NoExc]

\* after the walk: the default verb, and the result (lines 1889-1903)
DefaultVerb(who) == IF HasDefaultVerb(who) THEN DefaultVerbOf(who) ELSE "examine"

\* a variant that takes the first target's default verb whenever there is a target
FinishParseAnyTarget(s, words, unparsed) ==
    IF s.exc # NoExc THEN Raised(s.exc, s.told)
    ELSE IF s.verb = None /\ Len(s.who_order) = 0
    THEN Raised(UnknownVerbException(words[1], words, s.qualifier), s.told)
    ELSE Returned(ParseResult(IF s.verb = None THEN DefaultVerb(s.who_order[1]) ELSE s.verb,
                              s.who_info, s.who_order, s.adverb, JoinStr(s.message),
                              s.bodypart, s.qualifier, s.arg_words, s.unrecognized_words,
                              unparsed),
                  s.told)

FinishParse(s, words, unparsed) ==
    IF s.exc # NoExc THEN Raised(s.exc, s.told)
    ELSE IF s.verb = None /\ Len(s.who_order) # 1
    THEN Raised(UnknownVerbException(words[1], words, s.qualifier), s.told)
    ELSE Returned(ParseResult(IF s.verb = None THEN DefaultVerb(s.who_order[1]) ELSE s.verb,
                              s.who_info, s.who_order, s.adverb, JoinStr(s.message),
                              s.bodypart, s.qualifier, s.arg_words, s.unrecognized_words,
                              unparsed),
                  s.told)

\* the walk and what follows it (lines 1695-1903)
WalkAndFinish(c, verb, external_verb, message_verb, qualifier, message, words, unparsed) ==
    FinishParse(Walk(c, WalkStart(verb, external_verb, message_verb, qualifier, message),
                     words, 1),
                words,
                IF verb # None THEN LStrip(Slice(unparsed, Len(verb))) ELSE unparsed)

\* a variant that never looks for an exit before the walk
ExitVerbSkipped(c, words, qualifier, message, unparsed) ==
    WalkAndFinish(c, None, FALSE, FALSE, qualifier, message, words, unparsed)

\* the words name an exit of the location (lines 1673-1690)
ExitVerb(c, words, qualifier, message, unparsed) ==
    LET moving == words[1] \in MOVEMENT_VERBS
        rest == IF moving THEN Tail(words) ELSE words
    IN  IF rest = <<>>
        THEN Raised(ParseError(<<"%s where?", Capital(words[1])>>), <<>>)
        ELSE LET x == check_name_with_spaces(rest, 1, c.exits, EmptyDict)
             IN  IF x.obj # None
                 THEN IF x.wordcount # Len(rest)
                      THEN Raised(ParseError(<<"What do you want to do with that?">>), <<>>)
                      ELSE NonSoulVerb(ParseResult(x.name, EmptyDict, <<x.obj>>, None, "", None,
                                                   qualifier, <<>>, <<>>,
                                                   LStrip(Slice(unparsed, Len(x.name)))),
                                       <<>>)
                 ELSE IF moving
                 THEN Raised(ParseError(<<"You can't %s there.", words[1]>>), <<>>)
                 ELSE WalkAndFinish(c, None, FALSE, FALSE, qualifier, message, words, unparsed)

\* a variant that looks in the verb table before the external verbs
IdentifyVerbSoulFirst(c, words, qualifier, message, unparsed) ==
    IF words[1] \in DOMAIN VERBS
    THEN WalkAndFinish(c, words[1], FALSE, IsMessageVerb(words[1]), qualifier, message,
                       Tail(words), unparsed)
    ELSE IF words[1] \in c.external_verbs
    THEN WalkAndFinish(c, words[1], TRUE, FALSE, qualifier, message, Tail(words), unparsed)
    ELSE IF DOMAIN c.exits # {}
    THEN ExitVerb(c, words, qualifier, message, unparsed)
    ELSE WalkAndFinish(c, None, FALSE, FALSE, qualifier, message, words, unparsed)

\* which kind of verb the first word is (lines 1663-1693)
IdentifyVerb(c, words, qualifier, message, unparsed) ==
    IF words[1] \in c.external_verbs
    THEN WalkAndFinish(c, words[1], TRUE, FALSE, qualifier, message, Tail(words), unparsed)
    ELSE IF words[1] \in DOMAIN VERBS
    THEN WalkAndFinish(c, words[1], FALSE, IsMessageVerb(words[1]), qualifier, message,
                       Tail(words), unparsed)
    ELSE IF DOMAIN c.exits # {}
    THEN ExitVerb(c, words, qualifier, message, unparsed)
    ELSE WalkAndFinish(c, None, FALSE, FALSE, qualifier, message, words, unparsed)

\* the leading qualifier and skip word (lines 1648-1662)
StripQualifier(c, words, message, unparsed) ==
    LET qualified == words[1] \in ACTION_QUALIFIERS
        qualifier == IF ~qualified THEN None
                     ELSE IF words[1] = "dont" THEN "don't" ELSE words[1]
        words1 == IF qualified THEN Tail(words) ELSE words
        unparsed1 == IF qualified THEN LStrip(Slice(unparsed, Len(words[1]))) ELSE unparsed
        skipped == words1 # <<>> /\ words1[1] \in skip_words
        words2 == IF skipped THEN Tail(words1) ELSE words1
        unparsed2 == IF skipped THEN LStrip(Slice(unparsed1, Len(words1[1]))) ELSE unparsed1
    IN  IF words2 = <<>> THEN Raised(ParseError(<<"What?">>), <<>>)
        ELSE IdentifyVerb(c, words2, qualifier, message, unparsed2)

\* Soul.parse(player, cmd, external_verbs); c holds what it reads
SoulParse(c, cmd) ==
    LET m == QuotedMessage(cmd)
    IN  IF m.found /\ m.quote = "'" /\ m.text = <<>>
        THEN \* (m.group("msg1") or m.group("msg2")) is None
             Raised(BuiltinError("AttributeError", "'NoneType' object has no attribute 'strip'"), <<>>)
        ELSE
        LET message == IF m.found THEN <<Concat(StripChunks(m.text))>> ELSE <<>>
            rest == IF m.found
                    THEN SubSeq(cmd, 1, m.start - 1) \o SubSeq(cmd, m.end + 1, Len(cmd))
                    ELSE cmd
        IN  IF rest = <<>> THEN Raised(ParseError(<<"What?">>), <<>>)
            ELSE IF Split(rest) = <<>>
            THEN Raised(BuiltinError("IndexError", "list index out of range"), <<>>)
            ELSE StripQualifier(c, Split(rest), message, Str(cmd))

\* what Soul.parse reads: the actor's location and inventory, the remembered
\* parse, the external verbs, and the dictionaries of lines 1699-1712
Context(livings_, items_, exits_, inventory_, mem, external_verbs) ==
    LET livingseq == InOrder(LivingsOrder, livings_)
        itemseq == InOrder(ItemsOrder, items_) \o InOrder(ItemsOrder, inventory_)
    IN  [player |-> Actor,
         livings |-> livings_, items |-> items_, exits |-> exits_, inventory |-> inventory_,
         mem |-> mem, external_verbs |-> external_verbs,
         all_livings |-> DictByName(livingseq), living_keys |-> KeysInOrder(livingseq),
         all_items |-> DictByName(itemseq), item_keys |-> KeysInOrder(itemseq)]

\* the same for another player than the actor
ContextFor(player, c) == [c EXCEPT !.player = player]

\* ------------------------------------------------------------------------
\* Living.parse (lines 865-889)
\* ------------------------------------------------------------------------
\* Living.validate_socialize_targets: no target may be an exit
validate_socialize_targets(parsed, lines) ==
    IF \E w \in DOMAIN parsed.who_info : IsExit(w)
    THEN Raised(ParseError(<<"That doesn't make much sense.">>), lines)
    ELSE Returned(parsed, lines)

\* what Living.parse does with the result Soul.parse returned (lines 877-884)
Classify(parsed, external_verbs, lines) ==
    IF external_verbs # {} /\ parsed.verb \in external_verbs
    THEN NonSoulVerb(parsed, lines)
    ELSE IF /\ parsed.verb \notin NONLIVING_OK_VERBS
            /\ \E i \in 1..Len(parsed.who_order) : ~IsLiving(parsed.who_order[i])
    THEN NonSoulVerb(parsed, lines)
    ELSE validate_socialize_targets(parsed, lines)

\* Living.parse once Soul.parse has answered r for the line (lines 874-884)
AfterSoulParse(r, external_verbs, line, lines, parse_before) ==
    IF r.kind # "returned"
    THEN [out |-> [r EXCEPT !.told = lines \o @],
          previous_commandline |-> <<line>>,
          previous_parse |-> parse_before]
    ELSE [out |-> Classify(r.result, external_verbs, lines \o r.told),
          previous_commandline |-> <<line>>,
          previous_parse |-> <<r.result>>]

\* a variant that remembers the line as it was typed
LivingParseAsTyped(c, commandline_before, parse_before, commandline) ==
    LET line == IF commandline = <<"again">> /\ commandline_before # <<>>
                THEN commandline_before[1] ELSE commandline
    IN  [AfterSoulParse(SoulParse(c, line), c.external_verbs, line, <<>>, parse_before)
            EXCEPT !.previous_commandline = <<commandline>>]

\* Living.parse(commandline, external_verbs): what it does (out) and the
\* actor's previous_commandline and _previous_parse after it.  The cells
\* hold <<>> for None and <<v>> for a value v.
LivingParse(c, commandline_before, parse_before, commandline) ==
    LET again == commandline = <<"again">>
        repeatable == commandline_before # <<>> /\ commandline_before[1] # <<>>
    IN  IF again /\ ~repeatable
        THEN [out |-> Raised(ActionRefused(<<"Can't repeat your previous action.">>), <<>>),
              previous_commandline |-> commandline_before,
              previous_parse |-> parse_before]
        ELSE
        LET line == IF again THEN commandline_before[1] ELSE commandline
            lines == IF again THEN <<<<"<dim>(repeat: %s)</>", Concat(line)>>>> ELSE <<>>
        IN  AfterSoulParse(SoulParse(c, line), c.external_verbs, line, lines, parse_before)

\* ------------------------------------------------------------------------
\* Soul.process_verb_parsed (lines 1467-1625) and Living.do_socialize
\* ------------------------------------------------------------------------
\* verbdefs.ACTION_QUALIFIERS[qualifier]: the text around the action in the
\* actor's message and in the room's, and use_room_default
QUALIFIER_FORMS ==
    [q \in {"suddenly", "fail", "don't"} |->
        CASE q = "suddenly" -> [action |-> <<"suddenly ", "">>, room |-> <<"suddenly ", "">>,
                                use_room_default |-> TRUE]
          [] q = "fail" -> [action |-> <<"try to ", ", but fail miserably">>,
                            room |-> <<"tries to ", ", but fails miserably">>,
                            use_room_default |-> FALSE]
          [] q = "don't" -> [action |-> <<"don't ", "">>, room |-> <<"doesn't ", "">>,
                             use_room_default |-> FALSE]]

\* lang.join(words): "a", "a and b", "a, b, and c"
RECURSIVE CommaJoin(_)
CommaJoin(words) ==
    IF Len(words) = 1 THEN words[1] ELSE words[1] \o ", " \o CommaJoin(Tail(words))

LangJoin(words) ==
    IF words = <<>> THEN ""
    ELSE IF Len(words) = 1 THEN words[1]
    ELSE IF Len(words) = 2 THEN words[1] \o " and " \o words[2]
    ELSE CommaJoin(SubSeq(words, 1, Len(words) - 1)) \o ", and " \o words[Len(words)]

\* lang.possessive(name)
LangPossessive(name) == IF name = "" THEN "" ELSE name \o "'s"

\* a variant that names the actor by the title, like any other target
who_replacement_title(actor, target, observer) ==
    IF target = observer /\ target # actor THEN "you" ELSE TitleOf[target]

\* Soul.who_replacement(actor, target, observer); observer None is the room
who_replacement(actor, target, observer) ==
    IF target = actor
    THEN (IF actor = observer THEN "yourself" ELSE Objective(actor) \o "self")
    ELSE (IF target = observer THEN "you" ELSE TitleOf[target])

\* Soul.poss_replacement(actor, target, observer)
poss_replacement(actor, target, observer) ==
    IF target = actor
    THEN (IF actor = observer THEN "your own" ELSE Possessive(actor) \o " own")
    ELSE (IF target = observer THEN "your" ELSE LangPossessive(TitleOf[target]))

\* action.replace(" " + key, text) on the blank-separated pieces of a
\* template: by holds the pieces of text, none when text is empty
RECURSIVE Subst(_, _, _)
Subst(pieces, key, by) ==
    IF pieces = <<>> THEN <<>>
    ELSE (IF Head(pieces) = key THEN by ELSE <<Head(pieces)>>) \o Subst(Tail(pieces), key, by)

\* action.replace("$", by), on the pieces of the model's templates
ReplaceDollar(pieces, by) ==
    [i \in 1..Len(pieces) |->
        IF \E v \in DOMAIN VERBS : pieces[i] = v \o "$"
        THEN (CHOOSE v \in DOMAIN VERBS : pieces[i] = v \o "$") \o by
        ELSE pieces[i]]

Rendered(who, player_msg, room_msg, target_msg) ==
    [kind |-> "returned", exc |-> NoExc, who |-> who, player_msg |-> player_msg,
     room_msg |-> room_msg, target_msg |-> target_msg]

RenderFailed(e) ==
    [kind |-> e.kind, exc |-> e, who |-> {}, player_msg |-> "", room_msg |-> "",
     target_msg |-> [viewer \in Entities |-> ""]]

\* the targets result_messages returns (lines 1553-1558)
result_targets(player, who_info) ==
    IF player \in DOMAIN who_info THEN DOMAIN who_info \ {player} ELSE DOMAIN who_info

\* a variant whose message for the targets names every target, "you" being
\* the target that reads it
target_who_per_viewer(player, who_order) ==
    [viewer \in Entities |->
        LangJoin([i \in 1..Len(who_order) |-> who_replacement(player, who_order[i], viewer)])]

\* the text that stands for \nWHO in the message for the targets (line 1524):
\* one text for every target that reads it
target_who(player, who_order) == [viewer \in Entities |-> "you"]

\* the \nWHO text of a message seen by observer (lines 1514, 1519)
WhoText(player, who_order, observer) ==
    LangJoin([i \in 1..Len(who_order) |-> who_replacement(player, who_order[i], observer)])

\* result_messages(action, action_room) of process_verb_parsed (lines
\* 1506-1559), the templates as pieces.  The qualifier's text is put around
\* the message after the pieces are filled in: no text that is filled in
\* holds a format character, so the order makes no difference.
result_messages(player, parsed, action, action_room) ==
    LET who_order == parsed.who_order
        qualified == parsed.qualifier # None
        form == QUALIFIER_FORMS[IF qualified THEN parsed.qualifier ELSE "suddenly"]
        room_action == IF qualified /\ ~form.use_room_default THEN action ELSE action_room
        Wrap(around, text) == IF qualified THEN around[1] \o text \o around[2] ELSE text
        single == Len(who_order) = 1
        subjective == IF single /\ IsLiving(who_order[1]) THEN Subjective(who_order[1]) ELSE "it"
        PossText(observer) ==
            IF single THEN poss_replacement(player, who_order[1], observer)
            ELSE LangPossessive(LangJoin([i \in 1..Len(who_order) |->
                                             poss_replacement(player, who_order[i], observer)]))
        Agree(pieces, observer) ==
            Subst(Subst(Subst(pieces, "\\nIS", <<IF single THEN "is" ELSE "are">>),
                        "\\nSUBJ", <<IF single THEN subjective ELSE "they">>),
                  "\\nPOSS", IF PossText(observer) = "" THEN <<>> ELSE <<PossText(observer)>>)
        player_pieces ==
            Agree(Subst(Subst(Subst(action, "\\nWHO", <<WhoText(player, who_order, player)>>),
                              "\\nYOUR", <<"your">>),
                        "\\nMY", <<"your">>),
                  player)
        room_pieces ==
            Agree(Subst(Subst(Subst(room_action, "\\nWHO", <<WhoText(player, who_order, None)>>),
                              "\\nYOUR", <<Possessive(player)>>),
                        "\\nMY", <<Objective(player)>>),
                  None)
        target_pieces(viewer) ==
            Subst(Subst(Subst(Subst(Subst(Subst(room_action,
                "\\nWHO", <<target_who(player, who_order)[viewer]>>),
                "\\nYOUR", <<Possessive(player)>>),
                "\\nPOSS", <<"your">>),
                "\\nIS", <<"are">>),
                "\\nSUBJ", <<"you">>),
                "\\nMY", <<Objective(player)>>)
    IN  Rendered(result_targets(player, parsed.who_info),
                 "You " \o Wrap(form.action, JoinStr(player_pieces)) \o ".",
                 Capital(TitleOf[player]) \o " " \o Wrap(form.room, JoinStr(room_pieces)) \o ".",
                 [viewer \in Entities |->
                     Capital(TitleOf[player]) \o " "
                         \o Wrap(form.room, JoinStr(target_pieces(viewer))) \o "."])

\* the action string of the verb's kind (lines 1595-1614), as pieces
ActionPieces(parsed) ==
    LET verbdata == VERBS[parsed.verb]
        vtype == verbdata[1]
        action == CASE vtype = "DEUX" -> verbdata[3]
                    [] vtype = "DEFA" -> <<parsed.verb \o "$", "\\nHOW", "\\nAT">>
                    [] vtype = "PHYS" -> <<parsed.verb \o "$">> \o verbdata[3]
                                             \o <<"\\nWHO", "\\nHOW", "\\nWHERE">>
                    [] vtype = "SIMP" -> verbdata[3]
    IN  IF DOMAIN parsed.who_info # {} /\ Len(verbdata) > 3
        THEN Subst(action, "\\nAT", verbdata[4] \o <<"\\nWHO">>)
        ELSE Subst(action, "\\nAT", <<>>)

\* a variant that looks for \nWHO only
check_person_who_only(action, who) ==
    ~(who = <<>> /\ \E i \in 1..Len(action) : action[i] = "\\nWHO")

\* Soul.check_person(action, who)
check_person(action, who) ==
    ~(who = <<>> /\ \E i \in 1..Len(action) : action[i] \in {"\\nWHO", "\\nPOSS"})

\* Soul.process_verb_parsed(player, parsed) for the kinds of verb of the
\* table.  No message of the model's words starts with a single quote.
process_verb_parsed(player, parsed) ==
    IF parsed.verb \notin DOMAIN VERBS
    THEN RenderFailed(UnknownVerbException(parsed.verb, None, parsed.qualifier))
    ELSE
    LET defaults == VERBS[parsed.verb][2]
        message == IF parsed.message = "" /\ Len(defaults) > 1 THEN defaults[2]
                   ELSE parsed.message
        adverb == IF parsed.adverb # None THEN parsed.adverb
                  ELSE IF defaults # <<>> THEN defaults[1] ELSE ""
        where == IF parsed.bodypart # None THEN <<BODY_PARTS[parsed.bodypart]>>
                 ELSE IF Len(defaults) > 2 /\ defaults[3] # "" THEN <<defaults[3]>> ELSE <<>>
        action == ActionPieces(parsed)
        Fill(pieces) == Subst(Subst(Subst(Subst(pieces,
                            "\\nHOW", IF adverb = "" THEN <<>> ELSE <<adverb>>),
                            "\\nWHERE", where),
                            "\\nWHAT", IF message = "" THEN <<>> ELSE <<message>>),
                            "\\nMSG", IF message = "" THEN <<>> ELSE <<"'" \o message \o "'">>)
        filled == Fill(action)
    IN  IF ~check_person(action, parsed.who_order)
        THEN RenderFailed(ParseError(<<"The verb %s needs a person.", parsed.verb>>))
        ELSE IF VERBS[parsed.verb][1] = "DEUX"
        THEN result_messages(player, parsed, filled, Fill(VERBS[parsed.verb][4]))
        ELSE result_messages(player, parsed, ReplaceDollar(filled, ""), ReplaceDollar(filled, "s"))

NoSocial ==
    [kind |-> "none", exc |-> NoExc, who |-> {}, player_msg |-> "", room_msg |-> "",
     target_msg |-> [viewer \in Entities |-> ""], heard |-> EmptyDict, pending |-> <<>>,
     living |-> None, attacks |-> <<>>]

\* a variant that tells the excluded living as well
LocationTellEveryone(livings_, room_msg, exclude_living, specific_targets, specific_target_msg) ==
    [living \in livings_ |->
        IF living \in specific_targets THEN <<specific_target_msg[living]>>
        ELSE <<room_msg>>]

\* Location.tell(room_msg, exclude_living, specific_targets, specific_target_msg)
\* (lines 451-471): what each living of the location is told
LocationTell(livings_, room_msg, exclude_living, specific_targets, specific_target_msg) ==
    [living \in livings_ |->
        IF living = exclude_living THEN <<>>
        ELSE IF living \in specific_targets THEN <<specific_target_msg[living]>>
        ELSE <<room_msg>>]

\* the "say" of do_socialize (lines 900-906): cmdline.partition(" ")[2].strip()
SayRest(cmdline) ==
    LET blanks == {i \in 1..Len(cmdline) : IsBlank(cmdline[i])}
    IN  IF blanks = {} THEN ""
        ELSE Concat(StripChunks(SubSeq(cmdline,
                                       (CHOOSE i \in blanks : \A j \in blanks : i <= j) + 1,
                                       Len(cmdline))))

\* do_socialize when parse or do_socialize_cmd raised e (lines 899-907)
SocialRaised(e, cmdline, livings_) ==
    IF e.kind = "UnknownVerbException" /\ e.verb = "say"
    THEN [NoSocial EXCEPT
             !.kind = "said",
             !.heard = LocationTell(livings_,
                           Capital(TitleOf[Actor]) \o " says: " \o SayRest(cmdline),
                           Actor, {}, EmptyDict)]
    ELSE [NoSocial EXCEPT !.kind = e.kind, !.exc = e]

\* Living.do_socialize_cmd(parsed) once process_verb_parsed has answered r
\* (lines 909-917): the messages and the notify_action that is queued
do_socialize_cmd(r, cmdline, livings_) ==
    IF r.kind # "returned"
    THEN SocialRaised(r.exc, cmdline, livings_)
    ELSE [kind |-> "done", exc |-> NoExc, who |-> r.who, player_msg |-> r.player_msg,
          room_msg |-> r.room_msg, target_msg |-> r.target_msg,
          heard |-> [living \in livings_ |->
                        (IF living = Actor THEN <<r.player_msg>> ELSE <<>>)
                            \o LocationTell(livings_, r.room_msg, Actor, r.who,
                                            r.target_msg)[living]],
          pending |-> <<"notify_action">>, living |-> None, attacks |-> <<>>]

\* the sets of targets in the orders in which Python may iterate them
TargetOrders(who) ==
    {o \in SeqsUpTo(who, Cardinality(who)) :
        Len(o) = Cardinality(who) /\ \A i, j \in 1..Len(o) : o[i] = o[j] => i = j}

\* "for living in who: if living.aggressive: pending_actions.send(lambda
\* victim=self: living.start_attack(victim))" (lines 923-925) over the targets
\* left to visit: victim is bound when the action is made, living is the
\* variable of the loop, read when the action is run.  A target that is no
\* Living has no attribute aggressive.
RECURSIVE AttackLoop(_, _, _)
AttackLoop(s, todo, aggressive_) ==
    IF todo = <<>> THEN s
    ELSE IF ~IsLiving(Head(todo))
    THEN [s EXCEPT !.kind = "AttributeError", !.living = Head(todo),
                   !.exc = BuiltinError("AttributeError", "aggressive")]
    ELSE AttackLoop([s EXCEPT !.living = Head(todo),
                              !.pending = IF Head(todo) \in aggressive_
                                          THEN Append(@, "start_attack") ELSE @],
                    Tail(todo), aggressive_)

\* the end of Living.do_socialize_cmd(parsed) (lines 918-925), s being what
\* the call has done so far and order the order in which `who` is iterated
QueueAttacks(s, parsed, aggressive_, order) ==
    IF s.kind = "done" /\ parsed.verb \in AGGRESSIVE_VERBS
                      /\ parsed.qualifier \notin NEGATING_QUALIFIERS
    THEN AttackLoop(s, order, aggressive_)
    ELSE s

\* Living.start_attack(victim) of attacker (lines 1042-1051), in the
\* victim's location: who is told what, and the attack
StartAttack(s, attacker, victim, livings_) ==
    [s EXCEPT !.attacks = Append(@, <<attacker, victim>>),
              !.heard = [living \in DOMAIN s.heard |->
                   s.heard[living]
                   \o (IF living = victim
                       THEN <<Capital(TitleOf[attacker]) \o " starts attacking you!">>
                       ELSE <<>>)
                   \o (IF living \in livings_
                       THEN LocationTell(livings_,
                                Capital(TitleOf[attacker]) \o " starts attacking "
                                    \o TitleOf[victim] \o "!",
                                victim, {attacker},
                                [x \in Entities |-> "You start attacking "
                                                       \o TitleOf[victim] \o "!"])[living]
                       ELSE <<>>)]]

\* the driver runs the pending action that was queued first: notify_action
\* of a Location does nothing; an attack is started by the living that the
\* variable of the loop holds
RunAction(s, livings_) ==
    LET rest == [s EXCEPT !.pending = Tail(@)]
    IN  IF Head(s.pending) # "start_attack" THEN rest
        ELSE IF ~IsLiving(s.living)
        THEN [rest EXCEPT !.kind = "AttributeError",
                          !.exc = BuiltinError("AttributeError", "start_attack")]
        ELSE StartAttack(rest, s.living, Actor, livings_)

\* Living.do_socialize(cmdline) once Living.parse has answered out (lines 895-907)
do_socialize(out, cmdline, livings_) ==
    IF out.kind = "returned"
    THEN do_socialize_cmd(process_verb_parsed(Actor, out.result), cmdline, livings_)
    ELSE SocialRaised(out.exc, cmdline, livings_)

\* ------------------------------------------------------------------------
\* Door (lines 1251-1416)
\* ------------------------------------------------------------------------
\* the things an actor may hold or hand to a door, and Key.key_code;
\* getattr(item, "key_code", None) of a thing that is no key is None
DoorItems == {"o_book", "o_key", "o_rusty"}
KeyCodeOf(item) == CASE item = "o_key" -> "k1" [] item = "o_rusty" -> "k2" [] OTHER -> None
ItemTitle(item) == CASE item = "o_key" -> "key" [] item = "o_rusty" -> "rusty key" [] OTHER -> NameOf[item]
DoorItemsOrder == <<"o_book", "o_rusty", "o_key">>

\* Door.__init__(..., locked, opened) (lines 1255-1264) and, when paired,
\* Door.reverse_door (lines 1272-1284): doors[1] is the door, doors[2] the
\* door paired with it, in the same state
NewDoor(locked, opened, key_code, paired) ==
    [doors |-> [d \in 1..2 |-> [locked |-> locked, opened |-> opened, key_code |-> key_code]],
     paired |-> paired, call |-> <<>>, exc |-> NoExc, told |-> <<>>, others |-> <<>>]

\* Door.check_key(item) of doors[d] (lines 1383-1394): the door afterwards,
\* whether the assertion fails, and what it returns
check_key(dr, d, item) ==
    LET copy == dr.paired /\ dr.doors[d].key_code = None
        after == IF copy THEN [dr EXCEPT !.doors[d].key_code = dr.doors[3 - d].key_code] ELSE dr
    IN  [dr |-> after,
         failed |-> dr.paired /\ ~copy /\ dr.doors[d].key_code # dr.doors[3 - d].key_code,
         fits |-> KeyCodeOf(item) # None /\ KeyCodeOf(item) = after.doors[d].key_code]

\* Door.search_key(actor) of doors[d] (lines 1396-1401) over the items left to try
RECURSIVE search_key(_, _, _)
search_key(dr, d, todo) ==
    IF todo = <<>> THEN [dr |-> dr, failed |-> FALSE, key |-> None]
    ELSE LET c == check_key(dr, d, Head(todo))
         IN  IF c.failed THEN [dr |-> c.dr, failed |-> TRUE, key |-> None]
             ELSE IF c.fits THEN [dr |-> c.dr, failed |-> FALSE, key |-> Head(todo)]
             ELSE search_key(c.dr, d, Tail(todo))

\* the key Door.lock and Door.unlock use (lines 1345-1355, 1366-1376): the
\* item given if it fits, else a key of the actor's
FindKey(dr, d, item, inventory_, verb) ==
    LET c == IF item # None THEN check_key(dr, d, item)
             ELSE search_key(dr, d, InOrder(DoorItemsOrder, inventory_))
        key == IF item # None THEN (IF c.fits THEN item ELSE None) ELSE c.key
    IN  [dr |-> c.dr, key |-> key,
         exc |-> IF c.failed THEN BuiltinError("AssertionError", "door key codes must match")
                 ELSE IF key # None THEN NoExc
                 ELSE IF item # None
                 THEN ActionRefused(<<"You can't use that to %s it.", verb>>)
                 ELSE ActionRefused(<<"You don't seem to have the means to %s it.", verb>>),
         told |-> IF item = None /\ key # None /\ ~c.failed
                  THEN <<<<"<dim>(You use your %s; %s matches the lock.)</>", ItemTitle(key), "it">>>>
                  ELSE <<>>]

\* a call on doors[d] that was refused, or failed
DoorRaised(dr, name, d, item, e) ==
    [dr EXCEPT !.call = <<name, d, item>>, !.exc = e, !.told = <<>>, !.others = <<>>]

\* a call on doors[d] that went through
DoorDone(dr, name, d, item, told_, others_) ==
    [dr EXCEPT !.call = <<name, d, item>>, !.exc = NoExc, !.told = told_, !.others = others_]

\* both doors of a pair, or the one door
Both(dr, d) == IF dr.paired THEN {1, 2} ELSE {d}

\* Door.open(actor, item) of doors[d] (lines 1314-1327)
DoorOpen(dr, d, item) ==
    IF dr.doors[d].opened THEN DoorRaised(dr, "open", d, item, ActionRefused(<<"It's already open.">>))
    ELSE IF dr.doors[d].locked
    THEN DoorRaised(dr, "open", d, item, ActionRefused(<<"You try to open it, but it's locked.">>))
    ELSE DoorDone([dr EXCEPT !.doors = [x \in 1..2 |-> IF x \in Both(dr, d)
                                                        THEN [dr.doors[x] EXCEPT !.opened = TRUE]
                                                        ELSE dr.doors[x]]],
                  "open", d, item, <<<<"You opened it.">>>>, <<<<"{Title} opened the %s.", "door">>>>)

\* Door.close(actor, item) of doors[d] (lines 1329-1339)
DoorClose(dr, d, item) ==
    IF ~dr.doors[d].opened THEN DoorRaised(dr, "close", d, item, ActionRefused(<<"It's already closed.">>))
    ELSE DoorDone([dr EXCEPT !.doors = [x \in 1..2 |-> IF x \in Both(dr, d)
                                                        THEN [dr.doors[x] EXCEPT !.opened = FALSE]
                                                        ELSE dr.doors[x]]],
                  "close", d, item, <<<<"You closed it.">>>>, <<<<"{Title} closed the %s.", "door">>>>)

\* Door.allow_passage(actor) of doors[d], the door being bound (lines 1307-1312)
DoorAllowPassage(dr, d) ==
    IF ~dr.doors[d].opened
    THEN DoorRaised(dr, "allow_passage", d, None, ActionRefused(<<"You can't go there; it's closed.">>))
    ELSE DoorDone(dr, "allow_passage", d, None, <<>>, <<>>)

\* a variant of Door.lock that leaves the paired door as it is
DoorLockAlone(dr, d, item, inventory_) ==
    IF dr.doors[d].locked THEN DoorRaised(dr, "lock", d, item, ActionRefused(<<"It's already locked.">>))
    ELSE LET k == FindKey(dr, d, item, inventory_, "lock")
         IN  IF k.exc # NoExc THEN DoorRaised(k.dr, "lock", d, item, k.exc)
             ELSE DoorDone([k.dr EXCEPT !.doors[d].locked = TRUE], "lock", d, item, <<>>, <<>>)

\* Door.lock(actor, item) of doors[d] (lines 1341-1360)
DoorLock(dr, d, item, inventory_) ==
    IF dr.doors[d].locked THEN DoorRaised(dr, "lock", d, item, ActionRefused(<<"It's already locked.">>))
    ELSE LET k == FindKey(dr, d, item, inventory_, "lock")
         IN  IF k.exc # NoExc THEN DoorRaised(k.dr, "lock", d, item, k.exc)
             ELSE DoorDone([k.dr EXCEPT !.doors = [x \in 1..2 |->
                                IF x \in Both(dr, d)
                                THEN [k.dr.doors[x] EXCEPT !.locked = TRUE]
                                ELSE k.dr.doors[x]]],
                           "lock", d, item,
                           k.told \o <<<<"Your %s fits, it is now locked.", ItemTitle(k.key)>>>>,
                           <<<<"{Title} locked the %s with %s.", "door", "a " \o ItemTitle(k.key)>>>>)

\* Door.unlock(actor, item) of doors[d] (lines 1362-1381)
DoorUnlock(dr, d, item, inventory_) ==
    IF ~dr.doors[d].locked THEN DoorRaised(dr, "unlock", d, item, ActionRefused(<<"It's not locked.">>))
    ELSE LET k == FindKey(dr, d, item, inventory_, "unlock")
         IN  IF k.exc # NoExc THEN DoorRaised(k.dr, "unlock", d, item, k.exc)
             ELSE DoorDone([k.dr EXCEPT !.doors = [x \in 1..2 |->
                                IF x \in Both(dr, d)
                                THEN [k.dr.doors[x] EXCEPT !.locked = FALSE]
                                ELSE k.dr.doors[x]]],
                           "unlock", d, item,
                           k.told \o <<<<"Your %s fits, it is now unlocked.", ItemTitle(k.key)>>>>,
                           <<<<"{Title} unlocked the %s with %s.", "door", "a " \o ItemTitle(k.key)>>>>)

\* ------------------------------------------------------------------------
\* Item.move and Living.move (lines 284-302, 969-1003)
\* ------------------------------------------------------------------------
\* What can hold the book: the actor's location, the actor, bob, and a bag
\* (a Container).  h.held[x] is Location.items of the location and the
\* __inventory of the others; h.contained_in is the book's contained_in.
Holders == {"room", "o_dave", "o_bob", "o_bag"}

\* actor is who or a wizard (lines 771, 785; npc.py line 27)
SelfOrWizard(pl, who, actor) == actor = who \/ (actor # None /\ actor \in pl.wizards)

\* who.insert(item, actor) for an Item: Location.insert (lines 582-591),
\* Living.insert (lines 766-778), NPC.insert (npc.py lines 25-32),
\* Container.insert (lines 1144-1149)
HolderInsert(pl, h, who, item, actor) ==
    LET put == [h |-> [held |-> [h.held EXCEPT ![who] = @ \cup {item}], contained_in |-> who],
                exc |-> NoExc]
        refused(msg) == [h |-> h, exc |-> ActionRefused(msg)]
    IN  IF who = None
        THEN [h |-> h, exc |-> BuiltinError("AttributeError",
                                            "'NoneType' object has no attribute 'insert'")]
        ELSE IF who \in {"room", "o_bag"} THEN put
        ELSE IF who = "o_bob" /\ pl.bob_kind = "NPC" /\ ~pl.bob_aggressive THEN put
        ELSE IF SelfOrWizard(pl, who, actor) THEN put
        ELSE IF who = "o_bob" /\ pl.bob_aggressive
        THEN refused(<<"It's probably not a good idea to give %s to %s.", TitleOf[item], TitleOf[who]>>)
        ELSE refused(<<"%s doesn't want %s.", Capital(TitleOf[who]), TitleOf[item]>>)

\* who.remove(item, actor) for an Item: Location.remove (lines 593-602),
\* Living.remove (lines 780-789), Container.remove (lines 1151-1156)
HolderRemove(pl, h, who, item, actor) ==
    LET taken == [h |-> [held |-> [h.held EXCEPT ![who] = @ \ {item}], contained_in |-> None],
                  exc |-> NoExc]
    IN  IF who = "room" THEN (IF item \in h.held[who] THEN taken ELSE [h |-> h, exc |-> NoExc])
        ELSE IF who = "o_bag" \/ SelfOrWizard(pl, who, actor)
        THEN (IF item \in h.held[who] THEN taken
              ELSE [h |-> h, exc |-> BuiltinError("KeyError", item)])
        ELSE [h |-> h, exc |-> ActionRefused(<<"You can't take %s from %s.", TitleOf[item], TitleOf[who]>>)]

\* Item.move(target, actor) (lines 284-302): what is held afterwards, and the
\* exception if it raises.  allow_item_move and notify_moved do nothing in
\* Item; pl.allow_refuses and pl.notify_fails are an item whose class has
\* them raise.
ItemMove(pl, h, item, target, actor) ==
    IF pl.allow_refuses THEN [h |-> h, exc |-> ActionRefused(<<"You can't %s that.", "move">>)]
    ELSE
    LET source == h.contained_in
        out == IF source # None THEN HolderRemove(pl, h, source, item, actor)
               ELSE [h |-> h, exc |-> NoExc]
    IN  IF out.exc # NoExc THEN out
        ELSE LET in == HolderInsert(pl, out.h, target, item, actor)
                 failure == IF in.exc # NoExc THEN in.exc
                            ELSE IF pl.notify_fails
                            THEN BuiltinError("RuntimeError", "notify_moved")
                            ELSE NoExc
                 back == HolderInsert(pl, in.h, source, item, actor)
             IN  IF failure = NoExc THEN in
                 ELSE IF back.exc # NoExc THEN back
                 ELSE [h |-> back.h, exc |-> failure]

\* Where bob can be: the actor's location and a second one, "town", whose
\* class may have insert refuse a living.  l.livings[x] is Location.livings,
\* l.location is bob's location.
\* the actor's location, a town, and _limbo (lines 644-648), the location
\* attribute of a living that was just constructed (line 724)
Locations == {"room", "town", "limbo"}

\* a variant of Location.insert that leaves the living's location attribute
LocationInsertUnrecorded(pl, l, where, living) ==
    IF where = "town" /\ pl.town_refuses
    THEN [l |-> l, exc |-> ActionRefused(<<"You can't go there.">>)]
    ELSE [l |-> [l EXCEPT !.livings[where] = @ \cup {living}], exc |-> NoExc]

\* Location.insert(living, actor) (lines 582-591)
LocationInsertLiving(pl, l, where, living) ==
    IF where = "town" /\ pl.town_refuses
    THEN [l |-> l, exc |-> ActionRefused(<<"You can't go there.">>)]
    ELSE [l |-> [livings |-> [l.livings EXCEPT ![where] = @ \cup {living}], location |-> where],
          exc |-> NoExc]

\* Location.remove(living, actor) (lines 593-602)
LocationRemoveLiving(l, where, living) ==
    IF living \in l.livings[where]
    THEN [livings |-> [l.livings EXCEPT ![where] = @ \ {living}], location |-> None]
    ELSE l

\* a variant of Living.move that does not put the living back
LivingMoveNoReturn(pl, l, living, target, silent, is_player) ==
    LET gone == IF l.location # None THEN LocationRemoveLiving(l, l.location, living) ELSE l
        in == LocationInsertLiving(pl, gone, target, living)
    IN  [l |-> in.l, exc |-> in.exc, msgs |-> <<>>, pending |-> <<>>]

\* Living.move(target, actor, silent, is_player) (lines 969-1003): where the
\* living is afterwards, the exception if it raises, what the locations are
\* told and what is queued
LivingMove(pl, l, living, target, silent, is_player) ==
    IF target \notin Locations
    THEN [l |-> l, exc |-> BuiltinError("AssertionError", "can only move to a Location"),
          msgs |-> <<>>, pending |-> <<>>]
    ELSE
    LET original_location == l.location
        gone == IF original_location # None THEN LocationRemoveLiving(l, original_location, living)
                ELSE l
        in == LocationInsertLiving(pl, gone, target, living)
        kind == IF is_player THEN "player" ELSE "npc"
    IN  IF in.exc # NoExc
        THEN LET back == LocationInsertLiving(pl, gone, original_location, living)
             IN  IF original_location = None
                 THEN [l |-> gone, exc |-> in.exc, msgs |-> <<>>, pending |-> <<>>]
                 ELSE IF back.exc # NoExc
                 THEN [l |-> gone, exc |-> back.exc, msgs |-> <<>>, pending |-> <<>>]
                 ELSE [l |-> back.l, exc |-> in.exc, msgs |-> <<>>, pending |-> <<>>]
        ELSE [l |-> in.l, exc |-> NoExc,
              msgs |-> (IF original_location # None /\ ~silent
                        THEN <<<<original_location, "%s leaves.", Capital(TitleOf[living])>>>>
                        ELSE <<>>)
                       \o (IF ~silent THEN <<<<target, "%s arrives.", Capital(TitleOf[living])>>>>
                           ELSE <<>>),
              pending |-> (IF original_location # None THEN <<"notify_" \o kind \o "_left">>
                           ELSE <<>>)
                          \o <<"notify_" \o kind \o "_arrived">>]

\* ------------------------------------------------------------------------
\* The state machine
\* ------------------------------------------------------------------------
NoCall == [cmd |-> <<>>, external_verbs |-> {}, kind |-> "none", result |-> NoResult,
           exc |-> NoExc]

NoLookup == [words |-> <<>>, index |-> 0, all_livings |-> EmptyDict, all_items |-> EmptyDict,
             done |-> FALSE, found |-> NoMatch]

Snapshot ==
    [previously_parsed |-> previously_parsed, previous_parse |-> previous_parse,
     previous_commandline |-> previous_commandline,
     livings |-> livings, items |-> items, exits |-> exits, inventory |-> inventory]

\* the actor, freshly constructed (Living.__init__, Soul.__init__), in a
\* location with the given livings and exits, carrying the book
FreshCarrying(livings_, exits_, inventory_) ==
    /\ livings = livings_
    /\ items = {}
    /\ exits = exits_
    /\ inventory = inventory_
    /\ previously_parsed = <<>>
    /\ previous_parse = <<>>
    /\ previous_commandline = <<>>
    /\ outcome = NoCall
    /\ before = Snapshot
    /\ told = <<>>
    /\ calls = 0

Fresh(livings_, exits_) == FreshCarrying(livings_, exits_, {"o_book"})

\* the second actor, freshly constructed (Living.__init__, Soul.__init__)
NewSecond == [previously_parsed |-> <<>>, previous_parse |-> <<>>, previous_commandline |-> <<>>,
              outcome |-> NoCall, told |-> <<>>, before |-> <<>>, calls |-> 0]

\* nothing said or done yet
Idle == social = NoSocial /\ previous_call = <<>> /\ second = NewSecond

\* the door of the location: Door(...) with its defaults, not paired
Still == door = NewDoor(FALSE, TRUE, None, FALSE)

\* nothing moved yet: the book is where the actor's inventory says, bob is
\* where the location's livings say, every class is the one of base.py
NewPlace(livings_, inventory_) ==
    [bob |-> {}, bag |-> {}, town |-> {}, limbo |-> {},
     contained_in |-> IF "o_book" \in inventory_ THEN Actor ELSE None,
     location |-> IF "o_bob" \in livings_ THEN "room" ELSE None,
     wizards |-> {}, bob_kind |-> "Living", bob_aggressive |-> FALSE,
     allow_refuses |-> FALSE, notify_fails |-> FALSE, town_refuses |-> FALSE,
     call |-> <<>>, exc |-> NoExc, msgs |-> <<>>, pending |-> <<>>, aggressive |-> {}]

\* the livings whose aggressive attribute is set
AggressiveLivings == place.aggressive \cup (IF place.bob_aggressive THEN {"o_bob"} ELSE {})

Settled == place = NewPlace(livings, inventory)

InitWith(livings_, exits_) == Fresh(livings_, exits_) /\ lookup = NoLookup /\ Idle /\ Still /\ Settled

\* Living.parse(cmd, external_verbs) called by the actor: what it does to the
\* actor and to the record of the last call
ParseStep(cmd, external_verbs) ==
    /\ \E r \in {LivingParse(Context(livings, items, exits, inventory, previously_parsed,
                                     external_verbs),
                             previous_commandline, previous_parse, cmd)} :
           /\ outcome' = [cmd |-> cmd, external_verbs |-> external_verbs, kind |-> r.out.kind,
                          result |-> r.out.result, exc |-> r.out.exc]
           /\ told' = r.out.told
           /\ previous_commandline' = r.previous_commandline
           /\ previous_parse' = r.previous_parse
    /\ before' = Snapshot
    /\ calls' = calls + 1
    /\ UNCHANGED <<world, previously_parsed>>

\* the actor calls Living.parse(cmd, external_verbs)
ParseCmd(cmd, external_verbs) == ParseStep(cmd, external_verbs) /\ UNCHANGED aside

\* the actor calls Living.do_socialize(cmd): Living.parse, then the messages
Socialize(cmd) ==
    /\ ParseStep(cmd, {})
    /\ \E s \in {do_socialize([kind |-> outcome'.kind, result |-> outcome'.result,
                                exc |-> outcome'.exc],
                               cmd, livings)} :
           \E order \in TargetOrders(s.who) :
              social' = QueueAttacks(s, outcome'.result, AggressiveLivings, order)
    /\ UNCHANGED <<lookup, previous_call, door, place, second>>

\* the actor calls Living.parse(cmd), the call before it being kept
ParseRecorded(cmd) ==
    /\ ParseStep(cmd, {})
    /\ previous_call' = <<[outcome |-> outcome, before |-> before]>>
    /\ UNCHANGED <<lookup, social, door, place, second>>

\* a variant of what result_messages leaves of the ParseResult, in which the
\* player is taken out of parsed.who_info itself
parsed_after_in_place(player, parsed) ==
    [parsed EXCEPT !.who_info = [who \in DOMAIN parsed.who_info \ {player} |->
                                    parsed.who_info[who]]]

\* the ParseResult after process_verb_parsed(player, parsed): message and
\* adverb are copied to locals (lines 1479-1480), who_order is only read, and
\* the player is removed from set(parsed.who_info), a new set (lines 1553-1558)
parsed_after(player, parsed) == parsed

\* the actor calls do_socialize_cmd(parsed) with the result Living.parse
\* returned last; _previous_parse is that same object (line 874), and so is
\* the soul's remembered parse after remember_previous_parse
Render ==
    /\ outcome.kind = "returned"
    /\ \E after \in {parsed_after(Actor, outcome.result)} :
           /\ outcome' = [outcome EXCEPT !.result = after]
           /\ previous_parse' = IF previous_parse = <<outcome.result>> THEN <<after>>
                                ELSE previous_parse
           /\ previously_parsed' = IF previously_parsed = <<outcome.result>> THEN <<after>>
                                   ELSE previously_parsed
    /\ \E s \in {do_socialize_cmd(process_verb_parsed(Actor, outcome.result), outcome.cmd,
                                  livings)} :
           \E order \in TargetOrders(s.who) :
              social' = QueueAttacks(s, outcome.result, AggressiveLivings, order)
    /\ UNCHANGED <<world, previous_commandline, before, told, calls>>
    /\ UNCHANGED <<lookup, previous_call, door, place, second>>

\* the directions of an exit (line 1201) in the orders in which Python may
\* iterate the set
DirectionOrders(exit) ==
    {o \in SeqsUpTo(AliasesOf[exit] \cup {NameOf[exit]}, Cardinality(AliasesOf[exit]) + 1) :
        /\ Len(o) = Cardinality(AliasesOf[exit]) + 1
        /\ \A i, j \in 1..Len(o) : o[i] = o[j] => i = j}

\* errors.LocationIntegrityError("exit already exists: ...", direction, exit, location)
LocationIntegrityError(direction) ==
    [NoExc EXCEPT !.kind = "LocationIntegrityError",
                  !.msg = <<"exit already exists: '%s' in %s", direction>>]

\* Exit.bind(location) (lines 1198-1205) over the directions left to add:
\* location.exits afterwards and the exception if it raises
RECURSIVE ExitBind(_, _, _)
ExitBind(exits_, exit, todo) ==
    IF todo = <<>> THEN [exits |-> exits_, exc |-> NoExc]
    ELSE IF Head(todo) \in DOMAIN exits_
    THEN [exits |-> exits_, exc |-> LocationIntegrityError(Head(todo))]
    ELSE ExitBind([d \in DOMAIN exits_ \cup {Head(todo)} |->
                      IF d = Head(todo) THEN exit ELSE exits_[d]],
                  exit, Tail(todo))

\* the story calls exit.bind(location) on the actor's location, the set of
\* directions being iterated in the given order
BindExit(exit, order) ==
    \E r \in {ExitBind(exits, exit, order)} :
       /\ exits' = r.exits
       /\ place' = [place EXCEPT !.call = <<"Exit.bind", exit, order>>, !.exc = r.exc,
                                 !.msgs = <<>>, !.pending = <<>>]
       /\ before' = Snapshot
       /\ UNCHANGED <<livings, items, inventory, cells, outcome, told, calls, aside_but_place>>

\* the driver runs the next pending action of the last do_socialize_cmd
RunPending ==
    /\ social.pending # <<>>
    /\ social' = RunAction(social, livings)
    /\ UNCHANGED <<world, cells, call, lookup, previous_call, door, place, second>>

\* Living.remember_previous_parse -> Soul.remember_previous_parse
Remember ==
    /\ previously_parsed' = previous_parse
    /\ UNCHANGED <<world, previous_parse, previous_commandline, call, aside>>

\* a variant in which the remembered parse is one cell of the class Soul
SoulMemoryShared(who) == previously_parsed

\* who.soul.__previously_parsed: set in Soul.__init__ (lines 1444-1445), one
\* Soul made for each Living (line 723)
SoulMemory(who) == IF who = Actor THEN previously_parsed ELSE second.previously_parsed

\* bob calls Living.parse(cmd)
ParseSecond(cmd) ==
    /\ \E r \in {LivingParse(ContextFor("o_bob", Context(livings, items, exits, place.bob,
                                                         SoulMemory("o_bob"), {})),
                              second.previous_commandline, second.previous_parse, cmd)} :
           second' = [second EXCEPT
                         !.outcome = [cmd |-> cmd, external_verbs |-> {}, kind |-> r.out.kind,
                                      result |-> r.out.result, exc |-> r.out.exc],
                         !.told = r.out.told,
                         !.previous_commandline = r.previous_commandline,
                         !.previous_parse = r.previous_parse,
                         !.before = <<[previously_parsed |-> second.previously_parsed,
                                       previous_parse |-> second.previous_parse,
                                       previous_commandline |-> second.previous_commandline]>>,
                         !.calls = @ + 1]
    /\ UNCHANGED <<world, cells, call, lookup, social, previous_call, door, place>>

\* bob's Living.remember_previous_parse
RememberSecond ==
    /\ second' = [second EXCEPT !.previously_parsed = second.previous_parse]
    /\ UNCHANGED <<world, cells, call, lookup, social, previous_call, door, place>>

\* Location.remove(living, actor): a living other than the actor leaves
LocationRemove(obj) ==
    /\ obj \in livings
    /\ livings' = livings \ {obj}
    /\ place' = IF obj = "o_bob" THEN [place EXCEPT !.location = None] ELSE place
    /\ UNCHANGED <<items, exits, inventory, cells, call, lookup, social, previous_call, door, second>>

\* Location.insert(living, actor): a living other than the actor arrives
LocationInsert(obj) ==
    /\ obj \notin livings
    /\ livings' = livings \cup {obj}
    /\ place' = IF obj = "o_bob" THEN [place EXCEPT !.location = "room"] ELSE place
    /\ UNCHANGED <<items, exits, inventory, cells, call, lookup, social, previous_call, door, second>>

\* a call of Soul.check_name_with_spaces with the arguments drawn at the start
Lookup ==
    /\ ~lookup.done
    /\ lookup.words # <<>>
    /\ lookup' = [lookup EXCEPT !.done = TRUE,
                                !.found = check_name_with_spaces(lookup.words, lookup.index,
                                                                 lookup.all_livings,
                                                                 lookup.all_items)]
    /\ UNCHANGED <<world, cells, call, social, previous_call, door, place, second>>

\* the actor calls open, close, lock or unlock on the door or on the door
\* paired with it, with an item or without
OpenDoor(d, item) == door' = DoorOpen(door, d, item) /\ UNCHANGED <<world, cells, call, lookup, social, previous_call, place, second>>
CloseDoor(d, item) == door' = DoorClose(door, d, item) /\ UNCHANGED <<world, cells, call, lookup, social, previous_call, place, second>>
LockDoor(d, item) == door' = DoorLock(door, d, item, inventory) /\ UNCHANGED <<world, cells, call, lookup, social, previous_call, place, second>>
UnlockDoor(d, item) == door' = DoorUnlock(door, d, item, inventory) /\ UNCHANGED <<world, cells, call, lookup, social, previous_call, place, second>>
PassDoor(d) == door' = DoorAllowPassage(door, d) /\ UNCHANGED <<world, cells, call, lookup, social, previous_call, place, second>>

\* what every holder holds, from the variables
Held == [held |-> [x \in Holders |-> CASE x = "room" -> items
                                        [] x = Actor -> inventory
                                        [] x = "o_bob" -> place.bob
                                        [] x = "o_bag" -> place.bag],
         contained_in |-> place.contained_in]

\* somebody calls book.move(target, actor)
MoveItem(target, actor) ==
    \E r \in {ItemMove(place, Held, "o_book", target, actor)} :
       /\ items' = r.h.held["room"]
       /\ inventory' = r.h.held[Actor]
       /\ place' = [place EXCEPT !.bob = r.h.held["o_bob"], !.bag = r.h.held["o_bag"],
                                 !.contained_in = r.h.contained_in,
                                 !.call = <<"Item.move", target, actor, place.contained_in>>,
                                 !.exc = r.exc, !.msgs = <<>>, !.pending = <<>>]
       /\ UNCHANGED <<livings, exits, cells, call, lookup, social, previous_call, door, second>>

\* where bob is, from the variables
Whereabouts == [livings |-> [x \in Locations |-> CASE x = "room" -> livings
                                                   [] x = "town" -> place.town
                                                   [] x = "limbo" -> place.limbo],
                location |-> place.location]

\* somebody calls bob.move(target, silent=..., is_player=...)
MoveLiving(target, silent, is_player) ==
    \E r \in {LivingMove(place, Whereabouts, "o_bob", target, silent, is_player)} :
       /\ livings' = r.l.livings["room"]
       /\ place' = [place EXCEPT !.town = r.l.livings["town"], !.limbo = r.l.livings["limbo"],
                                 !.location = r.l.location,
                                 !.call = <<"Living.move", target, silent, place.location>>,
                                 !.exc = r.exc, !.msgs = r.msgs, !.pending = r.pending]
       /\ UNCHANGED <<items, exits, inventory, cells, call, lookup, social, previous_call, door, second>>

\* the command lines of up to n words over a vocabulary, blanks between
CommandLines(vocabulary, n) == {JoinWords(ws) : ws \in SeqsUpTo(vocabulary, n) \ {<<>>}}

\* --- Spec: one command of a fresh actor ---------------------------------
MainWords == {"wave", "take", "go", "north", "gate", "n", "suddenly", "bob", "book",
              "xyzzy", "xyzzy,", "happily", "me", "at"}
MainExternalVerbs == {{}, {"wave", "take"}}

Init == \E x \in {LocationExits, EmptyDict} : InitWith(AllLivings, x)

Next ==
    \/ /\ calls < MaxCalls
       /\ \E cmd \in CommandLines(MainWords, MaxWords), ext \in MainExternalVerbs :
             ParseCmd(cmd, ext)
    \/ Remember

Spec == Init /\ [][Next]_vars

\* --- SpecExcept: "everyone" and "except" --------------------------------
ExceptWords == {"wave", "at", "everyone", "except", "bob", "carol"}

InitExcept == \E others \in SUBSET (AllLivings \ {Actor}) :
                 InitWith(others \cup {Actor}, LocationExits)

NextExcept ==
    /\ calls < MaxCalls
    /\ \E cmd \in CommandLines(ExceptWords, MaxExceptWords) : ParseCmd(cmd, {})

SpecExcept == InitExcept /\ [][NextExcept]_vars

\* --- SpecSession: several commands, the driver remembering parses --------
SessionWords == {"wave", "tell", "at", "bob", "him", "her"}

InitSession == InitWith({Actor, "o_alice", "o_bob"}, LocationExits)

NextSession ==
    \/ /\ calls < MaxSessionCalls
       /\ \E cmd \in CommandLines(SessionWords, MaxSessionWords) : ParseCmd(cmd, {})
    \/ Remember
    \/ LocationRemove("o_bob")
    \/ LocationInsert("o_bob")

SpecSession == InitSession /\ [][NextSession]_vars

\* --- SpecNames: names of several words ----------------------------------
\* check_name_with_spaces is called on drawn words and dictionaries; the
\* first dictionary is also the exit mapping of the actor's location, where
\* the actor types "go" and the words
NameWords == {"north", "gate"}
Names == {JoinStr(ws) : ws \in SeqsUpTo(NameWords, MaxNameWords) \ {<<>>}}
ExitDicts == {[k \in keys |-> "o_north"] :
                 keys \in {ks \in SUBSET Names : Cardinality(ks) <= MaxNameKeys}}
ItemDicts == {[k \in keys |-> "o_book"] : keys \in {ks \in SUBSET Names : Cardinality(ks) <= 1}}

InitNames ==
    \E words \in SeqsUpTo(NameWords, MaxNameWords) \ {<<>>}, index \in 1..MaxNameWords,
       all_livings \in ExitDicts, all_items \in ItemDicts :
       /\ index <= Len(words)
       /\ Fresh(AllLivings, all_livings)
       /\ Idle
       /\ Still
       /\ Settled
       /\ lookup = [words |-> words, index |-> index, all_livings |-> all_livings,
                    all_items |-> all_items, done |-> FALSE, found |-> NoMatch]

GoWords == calls < MaxCalls /\ ParseCmd(JoinWords(<<"go">> \o lookup.words), {})

NextNames ==
    \/ Lookup
    \/ GoWords

SpecNames == InitNames /\ [][NextNames]_vars

\* --- SpecLong: check_name_with_spaces on names of many words ---------------
\* The first dictionary has one key, a name of up to MaxLongWords words; the
\* second is empty.
InitLong ==
    \E words \in SeqsUpTo(NameWords, MaxLongWords) \ {<<>>}, index \in 1..2,
       key \in SeqsUpTo(NameWords, MaxLongWords) \ {<<>>} :
       /\ index <= Len(words)
       /\ Fresh(AllLivings, LocationExits)
       /\ Idle
       /\ Still
       /\ Settled
       /\ lookup = [words |-> words, index |-> index,
                    all_livings |-> [k \in {JoinStr(key)} |-> "o_gate"],
                    all_items |-> EmptyDict, done |-> FALSE, found |-> NoMatch]

NextLong == Lookup

SpecLong == InitLong /\ [][NextLong]_vars

\* --- SpecQuote: command lines with quote characters ----------------------
\* A line is a sequence of pieces with one blank between two pieces; a piece
\* is a word, a word with a quote character at one of its ends or at both,
\* a pair of quote characters, or nothing (two blanks in a row, or a blank
\* at an end of the line).
QuoteStarts == {<<>>, <<<<"wave">>>>, <<<<"take">>>>, <<<<"tell">>>>, <<<<"suddenly">>>>}
QuotePieces == {<<>>, <<"bob">>, <<"at">>, <<"hi">>,
                <<"\"", "hi">>, <<"hi", "\"">>, <<"\"", "hi", "\"">>,
                <<"'", "hi">>, <<"hi", "'">>, <<"'", "'">>, <<"\"", "\"">>}
QuoteExternalVerbs == {"take"}

\* " ".join(pieces), as chunks
RECURSIVE JoinPieces(_)
JoinPieces(pieces) ==
    IF pieces = <<>> THEN <<>>
    ELSE IF Len(pieces) = 1 THEN pieces[1]
    ELSE pieces[1] \o <<" ">> \o JoinPieces(Tail(pieces))

QuoteLines == {JoinPieces(start \o ps) : start \in QuoteStarts,
                                         ps \in SeqsUpTo(QuotePieces, MaxQuotePieces)}

InitQuote == InitWith(AllLivings, LocationExits)

NextQuote ==
    /\ calls < MaxCalls
    /\ \E cmd \in QuoteLines : ParseCmd(cmd, QuoteExternalVerbs)

SpecQuote == InitQuote /\ [][NextQuote]_vars

\* --- SpecSocial: soul verbs and their messages ----------------------------
SocialWords == {"wave", "kick", "tell", "me", "bob", "carol", "except", "fail", "hi"}

InitSocial == InitWith(AllLivings, LocationExits)

NextSocial ==
    /\ calls < MaxCalls
    /\ \E cmd \in CommandLines(SocialWords, MaxSocialWords) : Socialize(cmd)

SpecSocial == InitSocial /\ [][NextSocial]_vars

\* --- SpecPerson: soul verbs of every kind, with and without targets -------
PersonWords == {"ayt", "tell", "kick", "wave", "bob", "me", "hi"}

InitPerson == InitWith(AllLivings, LocationExits)

NextPerson ==
    /\ calls < MaxCalls
    /\ \E cmd \in CommandLines(PersonWords, MaxPersonWords) : Socialize(cmd)

SpecPerson == InitPerson /\ [][NextPerson]_vars

\* --- SpecKinds: targets of every kind, remembered and referred to ---------
KindWords == {"kick", "wave", "north", "except", "it"}

InitKinds == InitWith(AllLivings, LocationExits)

NextKinds ==
    \/ /\ calls = 0
       /\ \E cmd \in CommandLines(KindWords, MaxKindFirstWords) : ParseCmd(cmd, {})
    \/ /\ calls = 1
       /\ \E cmd \in CommandLines(KindWords, MaxKindWords) : ParseCmd(cmd, {})
    \/ Remember

SpecKinds == InitKinds /\ [][NextKinds]_vars

\* --- SpecRender: parse, remember, then render -----------------------------
RenderWords == {"wave", "tell", "me", "bob", "hi"}

InitRender == InitWith(AllLivings, LocationExits)

NextRender ==
    \/ /\ calls < MaxRenderCalls
       /\ \E cmd \in CommandLines(RenderWords, MaxRenderWords) : ParseCmd(cmd, {})
    \/ Remember
    \/ Render

SpecRender == InitRender /\ [][NextRender]_vars

\* --- SpecTwice: the same line parsed again -------------------------------
\* The world stays as it is; what the soul remembers changes only when the
\* driver has it remember a parse.
TwiceWords == {"wave", "bob", "him", "everyone", "north"}

InitTwice == \E others \in SUBSET {"o_alice", "o_bob", "o_carol"} :
                InitWith(others \cup {Actor}, LocationExits)

NextTwice ==
    \/ /\ calls < MaxTwiceCalls
       /\ \E cmd \in CommandLines(TwiceWords, MaxTwiceWords) : ParseRecorded(cmd)
    \/ Remember

SpecTwice == InitTwice /\ [][NextTwice]_vars

\* --- SpecDoor: a door, alone or paired, and what the actor carries --------
\* A door is constructed in one of the three states the constructor lets
\* through; the story sets a key code on it or not, before it pairs the door
\* (the other door then has the code too) or after that.
InitDoor ==
    \E locked \in BOOLEAN, opened \in BOOLEAN, key_code \in {None, "k1"}, paired \in BOOLEAN,
       other_code \in {None, "k1"}, carried \in SUBSET DoorItems :
       /\ ~(locked /\ opened)
       /\ ~paired => other_code = key_code
       /\ FreshCarrying(AllLivings, LocationExits, carried)
       /\ lookup = NoLookup
       /\ Idle
       /\ Settled
       /\ door = [NewDoor(locked, opened, key_code, paired) EXCEPT !.doors[2].key_code = other_code]

NextDoor ==
    \E d \in 1..2, item \in DoorItems \cup {None} :
       /\ d = 2 => door.paired
       /\ \/ OpenDoor(d, item)
          \/ CloseDoor(d, item)
          \/ LockDoor(d, item)
          \/ UnlockDoor(d, item)
          \/ item = None /\ PassDoor(d)

SpecDoor == InitDoor /\ [][NextDoor]_vars

\* --- SpecMove: the book and bob are moved about ---------------------------
\* The book starts with the actor, bob or the bag, or nowhere (just
\* constructed); bob starts in
\* the actor's location or in none.  The classes are drawn: the actor a
\* wizard or not, bob a Living or an NPC, aggressive or not, the book's class
\* with allow_item_move or notify_moved raising, the town's with insert
\* refusing.
InitMove ==
    \E holder \in (Holders \ {"room"}) \cup {None}, here \in BOOLEAN, wizard \in BOOLEAN,
       bob_kind \in {"Living", "NPC"}, bob_aggressive \in BOOLEAN,
       allow_refuses \in BOOLEAN, notify_fails \in BOOLEAN, town_refuses \in BOOLEAN :
       /\ FreshCarrying(IF here THEN AllLivings ELSE AllLivings \ {"o_bob"}, LocationExits,
                        IF holder = Actor THEN {"o_book"} ELSE {})
       /\ lookup = NoLookup
       /\ Idle
       /\ Still
       /\ place = [NewPlace(livings, inventory) EXCEPT
                     !.bob = IF holder = "o_bob" THEN {"o_book"} ELSE {},
                     !.bag = IF holder = "o_bag" THEN {"o_book"} ELSE {},
                     !.contained_in = holder,
                     !.wizards = IF wizard THEN {Actor} ELSE {},
                     !.bob_kind = bob_kind, !.bob_aggressive = bob_aggressive,
                     !.allow_refuses = allow_refuses, !.notify_fails = notify_fails,
                     !.town_refuses = town_refuses]

NextMove ==
    \/ \E target \in Holders, actor \in {Actor, "o_bob", None} : MoveItem(target, actor)
    \/ \E target \in Locations \cup {"o_bag"}, silent \in BOOLEAN, is_player \in BOOLEAN :
          MoveLiving(target, silent, is_player)

SpecMove == InitMove /\ [][NextMove]_vars

\* --- SpecWander: a living is moved from where it was made -----------------
\* bob was just constructed (location _limbo, in no livings set) or was put
\* into the actor's location; the town's class may refuse him.
InitWander ==
    \E made \in BOOLEAN, town_refuses \in BOOLEAN :
       /\ Fresh(IF made THEN AllLivings \ {"o_bob"} ELSE AllLivings, LocationExits)
       /\ lookup = NoLookup
       /\ Idle
       /\ Still
       /\ place = [NewPlace(livings, inventory) EXCEPT
                     !.location = IF made THEN "limbo" ELSE "room",
                     !.town_refuses = town_refuses]

NextWander ==
    \E target \in Locations \cup {"o_bag"}, silent \in BOOLEAN, is_player \in BOOLEAN :
       MoveLiving(target, silent, is_player)

SpecWander == InitWander /\ [][NextWander]_vars

\* --- SpecBind: exits are bound to a location --------------------------------
\* The location is new (no exits); the story binds exits to it, some of which
\* share a direction.
InitBind == InitWith(AllLivings, EmptyDict)

NextBind == \E exit \in AllExits : \E order \in DirectionOrders(exit) : BindExit(exit, order)

SpecBind == InitBind /\ [][NextBind]_vars

\* --- SpecAgain: lines are repeated with "again" ------------------------------
\* The lines include the empty line and lines that fail to parse.
AgainWords == {"wave", "bob", "again", "xyzzy"}

InitAgain == InitWith(AllLivings, LocationExits)

NextAgain ==
    /\ calls < MaxAgainCalls
    /\ \E cmd \in CommandLines(AgainWords, MaxAgainWords) \cup {<<>>} : ParseCmd(cmd, {})

SpecAgain == InitAgain /\ [][NextAgain]_vars

\* --- SpecAttack: soul verbs among aggressive livings -----------------------
\* bob and carol are aggressive or not; the driver runs the pending actions
\* after the command.
AttackWords == {"kick", "wave", "bob", "carol", "fail", "me"}

InitAttack ==
    \E bob_aggressive \in BOOLEAN, others \in SUBSET {"o_carol"} :
       /\ Fresh(AllLivings, LocationExits)
       /\ lookup = NoLookup
       /\ Idle
       /\ Still
       /\ place = [NewPlace(livings, inventory) EXCEPT !.bob_aggressive = bob_aggressive,
                                                       !.aggressive = others]

NextAttack ==
    \/ /\ calls < MaxCalls
       /\ \E cmd \in CommandLines(AttackWords, MaxAttackWords) : Socialize(cmd)
    \/ RunPending

SpecAttack == InitAttack /\ [][NextAttack]_vars

\* --- SpecGone: pronouns for who or what has gone meanwhile -----------------
\* Two commands, the driver remembering parses; in between bob may leave
\* the location and the actor may put the book into a bag that is elsewhere.
GoneWords == {"wave", "bob", "book", "him", "it", "them"}

InitGone == InitWith({Actor, "o_alice", "o_bob"}, LocationExits)

NextGone ==
    \/ /\ calls < MaxSessionCalls
       /\ \E cmd \in CommandLines(GoneWords, MaxSessionWords) : ParseCmd(cmd, {})
    \/ Remember
    \/ LocationRemove("o_bob")
    \/ MoveItem("o_bag", Actor)

SpecGone == InitGone /\ [][NextGone]_vars

\* --- SpecPair: two actors in one location, their calls interleaved ---------
PairWords == {"alice", "dave", "her", "him"}
PairLines == {JoinWords(<<"wave", w>>) : w \in PairWords}

InitPair == InitWith(AllLivings, LocationExits)

NextPair ==
    \/ /\ calls < MaxSessionCalls
       /\ \E cmd \in PairLines : ParseCmd(cmd, {})
    \/ Remember
    \/ /\ second.calls < MaxSessionCalls
       /\ \E cmd \in PairLines : ParseSecond(cmd)
    \/ RememberSecond

SpecPair == InitPair /\ [][NextPair]_vars

\* --- SpecExclude: "except" before a name, "me" or a pronoun ----------------
\* Two commands, the driver remembering parses.
ExcludeWords == {"wave", "except", "bob", "carol", "him", "me"}

InitExclude == InitWith(AllLivings, LocationExits)

NextExclude ==
    \/ /\ calls < MaxSessionCalls
       /\ \E cmd \in CommandLines(ExcludeWords, MaxSessionWords) : ParseCmd(cmd, {})
    \/ Remember

SpecExclude == InitExclude /\ [][NextExclude]_vars

\* --- SpecPronoun: "him" and "it" after livings, the actor and an exit -------
\* Two commands, the driver remembering parses; bob may leave in between.
PronounWords == {"wave", "bob", "me", "north", "him", "it"}

InitPronoun == InitWith({Actor, "o_alice", "o_bob"}, LocationExits)

NextPronoun ==
    \/ /\ calls < MaxSessionCalls
       /\ \E cmd \in CommandLines(PronounWords, MaxSessionWords) : ParseCmd(cmd, {})
    \/ Remember
    \/ LocationRemove("o_bob")

SpecPronoun == InitPronoun /\ [][NextPronoun]_vars

\* ------------------------------------------------------------------------
\* Properties
\* ------------------------------------------------------------------------
\* the words of the last command line that remain after the leading
\* qualifier and skip word are taken off (lines 1650-1659)
RemainingWords ==
    LET words == Split(outcome.cmd)
        words1 == IF words # <<>> /\ words[1] \in ACTION_QUALIFIERS THEN Tail(words) ELSE words
    IN  IF words1 # <<>> /\ words1[1] \in skip_words THEN Tail(words1) ELSE words1

\* what the last call read: the world and the memory before it
LastContext ==
    Context(before.livings, before.items, before.exits, before.inventory,
            before.previously_parsed, outcome.external_verbs)

Called == outcome.kind # "none"
Typed(words) == Called /\ outcome.cmd = JoinWords(words)
SeqToSet(seq) == {seq[i] : i \in 1..Len(seq)}
NoDuplicates(seq) == \A i, j \in 1..Len(seq) : seq[i] = seq[j] => i = j

\* C1: in every result Soul.parse returns (Living.parse keeps it in
\* _previous_parse), who_order holds no entity twice and has as many entries
\* as who_info has keys.
C1_WhoOrderMatchesWhoInfo ==
    previous_parse # <<>> =>
        /\ NoDuplicates(previous_parse[1].who_order)
        /\ Len(previous_parse[1].who_order) = Cardinality(DOMAIN previous_parse[1].who_info)

\* C2: a call of Living.parse that fails with ParseError, UnknownVerbException
\* or NonSoulVerb leaves the Soul's remembered parse and the actor's
\* _previous_parse (what remember_previous_parse would store) as they were.
C2_FailedParseWritesNothing ==
    [][(calls' = calls + 1
        /\ outcome'.kind \in {"ParseError", "UnknownVerbException", "NonSoulVerb"})
       => (previously_parsed' = previously_parsed /\ previous_parse' = previous_parse)]_vars

\* C3: parsing a command line returns a result or fails with ParseError,
\* UnknownVerbException or NonSoulVerb; no other exception escapes.
C3_OnlyDeclaredErrors ==
    Called => outcome.kind \in {"returned", "ParseError", "UnknownVerbException", "NonSoulVerb"}

\* C4: "<soul verb> [at] everyone except x", x a living of the location other
\* than the actor, returns exactly the livings of the location other than
\* the actor and x as targets, each once.
C4_ExclusionLaw ==
    \A x \in before.livings \ {Actor} :
        (Typed(<<"wave", "everyone", "except", NameOf[x]>>)
         \/ Typed(<<"wave", "at", "everyone", "except", NameOf[x]>>)) =>
            /\ outcome.kind = "returned"
            /\ SeqToSet(outcome.result.who_order) = before.livings \ {Actor, x}
            /\ DOMAIN outcome.result.who_info = before.livings \ {Actor, x}
            /\ NoDuplicates(outcome.result.who_order)

C4_Witness ==
    /\ Typed(<<"wave", "at", "everyone", "except", "bob">>)
    /\ before.livings = {"o_alice", "o_bob", "o_carol", "o_dave"}
    /\ outcome.kind = "returned"
    /\ SeqToSet(outcome.result.who_order) = {"o_alice", "o_carol"}

\* the actor remembers a parse that targeted exactly the living b, and b is
\* in the actor's location when the last command was parsed
RememberedOnly(b) ==
    /\ before.previously_parsed # <<>>
    /\ before.previously_parsed[1].who_order = <<b>>
    /\ b \in before.livings

\* C5 as stated: with a remembered parse that targeted the single living b,
\* b still present, "<soul verb> at <b's objective pronoun>" returns
\* who_order = [b], for every soul verb.
C5_PronounRoundTrip ==
    \A b \in AllLivings, verb \in DOMAIN VERBS :
        (RememberedOnly(b) /\ Typed(<<verb, "at", Objective(b)>>)) =>
            (outcome.kind = "returned" /\ outcome.result.who_order = <<b>>)

\* C5 amended: the same for the soul verbs that take no free-text message.
C5_PronounRoundTripNoMessage ==
    \A b \in AllLivings, verb \in {v \in DOMAIN VERBS : ~IsMessageVerb(v)} :
        (RememberedOnly(b) /\ Typed(<<verb, "at", Objective(b)>>)) =>
            (outcome.kind = "returned" /\ outcome.result.who_order = <<b>>)

C5_Witness ==
    /\ RememberedOnly("o_bob")
    /\ Typed(<<"wave", "at", "him">>)
    /\ outcome.kind = "returned"
    /\ outcome.result.who_order = <<"o_bob">>

Count(seq, S) == Cardinality({i \in 1..Len(seq) : seq[i] \in S})

\* the errors Soul.parse has for a word it does not know after a soul verb
\* (lines 1870-1887); after an external verb such a word is kept instead
SoulVerbErrors ==
    {"What adverb did you mean: %s?", "The word %s makes no sense at that location.",
     "It's not clear what you mean by '%s'.",
     "It's not clear what you mean by '%s'. Just type in lowercase ('%s')."}

\* C6: a first remaining word that is in the external verbs is the verb and
\* is treated as an external verb, also when the verb table has it:
\* Living.parse never returns, never reports an unknown verb and never
\* rejects a word as it would after a soul verb; a line of that word alone
\* raises NonSoulVerb; and the result NonSoulVerb carries has that verb and
\* holds the word in args only where the line repeats it.
C6_ExternalVerbFirst ==
    (Called /\ RemainingWords # <<>> /\ RemainingWords[1] \in outcome.external_verbs) =>
        /\ outcome.kind \notin {"returned", "UnknownVerbException"}
        /\ outcome.kind = "ParseError" => outcome.exc.msg[1] \notin SoulVerbErrors
        /\ Len(RemainingWords) = 1 => outcome.kind = "NonSoulVerb"
        /\ outcome.kind = "NonSoulVerb" =>
              /\ outcome.result.verb = RemainingWords[1]
              /\ Count(outcome.result.args, {RemainingWords[1]})
                    <= Count(Tail(RemainingWords), {RemainingWords[1]})

C6_Witness ==
    /\ Typed(<<"wave", "bob", "xyzzy">>)
    /\ outcome.external_verbs = {"wave", "take"}
    /\ outcome.kind = "NonSoulVerb"
    /\ outcome.result.verb = "wave"
    /\ outcome.result.args = <<"bob", "xyzzy">>
    /\ outcome.result.unrecognized = <<"xyzzy">>

\* the words of the last command line after the optional movement word
Direction ==
    IF RemainingWords # <<>> /\ RemainingWords[1] \in MOVEMENT_VERBS
    THEN Tail(RemainingWords) ELSE RemainingWords

\* the first remaining word is no external verb and no soul verb, the
\* location has exits, and the words after the movement word are a key of them
NamesExit ==
    /\ Called /\ RemainingWords # <<>>
    /\ RemainingWords[1] \notin outcome.external_verbs \cup DOMAIN VERBS
    /\ JoinStr(Direction) \in DOMAIN before.exits

RedirectsTo(direction) ==
    /\ outcome.kind = "NonSoulVerb"
    /\ outcome.result.verb = direction
    /\ outcome.result.who_order = <<before.exits[direction]>>

TargetOf(c, word) ==
    IF word \in {"me", "myself", "self"} THEN Actor
    ELSE IF word \in DOMAIN c.all_livings THEN c.all_livings[word]
    ELSE IF word \in DOMAIN c.all_items THEN c.all_items[word]
    ELSE IF word \in DOMAIN c.exits THEN c.exits[word]
    ELSE None

\* a line the token walk ends on with no verb identified: the first remaining
\* word is no verb, no exit and no movement word, and every word is a target
\* by a name of one word, the only adverb, or a skip word
Verbless(c, words) ==
    /\ words # <<>>
    /\ words[1] \notin c.external_verbs \cup DOMAIN VERBS \cup DOMAIN c.exits \cup MOVEMENT_VERBS
    /\ \A i \in 1..Len(words) :
          TargetOf(c, words[i]) # None \/ words[i] \in ADVERBS \cup skip_words
    /\ Count(words, ADVERBS) <= 1

TargetsOf(c, words) ==
    SelectSeq([i \in 1..Len(words) |-> TargetOf(c, words[i])], LAMBDA e : e # None)

\* C9: when the token walk ends with no verb identified, Soul.parse returns
\* a result with the single target's default verb ("examine" if it has none)
\* if exactly one target was resolved, and raises UnknownVerbException with
\* no target or with two or more.
C9_DefaultVerb ==
    (Called /\ Verbless(LastContext, RemainingWords)) =>
        LET targets == TargetsOf(LastContext, RemainingWords)
        IN  IF Len(targets) = 1
            THEN /\ outcome.kind \in {"returned", "NonSoulVerb"}
                 /\ outcome.result.who_order = targets
                 /\ outcome.result.verb = DefaultVerb(targets[1])
                 /\ previous_parse = <<outcome.result>>
            ELSE outcome.kind = "UnknownVerbException"

C9_Witness ==
    /\ Typed(<<"happily", "book">>)
    /\ outcome.kind = "NonSoulVerb"
    /\ outcome.result.verb = "read"
    /\ outcome.result.who_order = <<"o_book">>

\* the position of the first word the token walk cannot classify, 0 if it
\* classifies them all (no verb identified, nothing remembered)
RECURSIVE FirstUnclassified(_, _, _)
FirstUnclassified(c, words, i) ==
    IF i > Len(words) THEN 0
    ELSE LET word == RStripComma(words[i])
             x == check_name_with_spaces(words, i, c.exits, EmptyDict)
             n == check_name_with_spaces(words, i, c.all_livings, c.all_items)
         IN  IF \/ word \in {"me", "myself", "self", "everyone", "everybody", "all",
                             "except", "but"}
                \/ word \in DOMAIN BODY_PARTS \cup ADVERBS
                \/ word \in DOMAIN c.all_livings \cup DOMAIN c.all_items
             THEN FirstUnclassified(c, words, i + 1)
             ELSE IF x.obj # None THEN FirstUnclassified(c, words, i + x.wordcount)
             ELSE IF n.obj # None THEN FirstUnclassified(c, words, i + n.wordcount)
             ELSE IF word \in skip_words THEN FirstUnclassified(c, words, i + 1)
             ELSE i

\* C10 as stated: an UnknownVerbException carries the first remaining word
\* of the line as it was typed.
C10_CarriesFirstWord ==
    outcome.kind = "UnknownVerbException" => outcome.exc.verb = RemainingWords[1]

\* C10 amended: it carries the first remaining word as typed when the walk
\* classified every word, and otherwise the first word the walk could not
\* classify, without its trailing commas.
C10_CarriesFirstOrUnknownWord ==
    outcome.kind = "UnknownVerbException" =>
        LET i == FirstUnclassified(LastContext, RemainingWords, 1)
        IN  /\ outcome.exc.words = RemainingWords
            /\ outcome.exc.verb = IF i = 0 THEN RemainingWords[1]
                                  ELSE RStripComma(RemainingWords[i])

C10_Witness ==
    /\ Typed(<<"bob", "xyzzy,">>)
    /\ outcome.kind = "UnknownVerbException"
    /\ outcome.exc.verb = "xyzzy"

\* the space-joined run of the first n words from the index of the lookup
Run(n) == JoinStr(SubSeq(lookup.words, lookup.index, lookup.index + n - 1))

\* the lengths of the runs check_name_with_spaces tries that are keys
KeyRuns ==
    {n \in 1..(Len(lookup.words) - lookup.index + 1) :
        /\ n < NameWordLimit
        /\ Run(n) \in DOMAIN lookup.all_livings \cup DOMAIN lookup.all_items}

\* C8: check_name_with_spaces returns the shortest run of words from the
\* index that is a key of the dictionaries, with the object under that key
\* (the first dictionary first) and the number of words of the run, and
\* nothing when no run is a key; and "go" followed by words of which a
\* proper leading run is an exit fails with ParseError, also when the whole
\* of the words is an exit too.
C8_ShortestMatchWins ==
    /\ lookup.done =>
          IF KeyRuns = {} THEN lookup.found = NoMatch
          ELSE LET n == CHOOSE a \in KeyRuns : \A b \in KeyRuns : a <= b
               IN  /\ lookup.found.wordcount = n
                   /\ lookup.found.name = Run(n)
                   /\ lookup.found.obj = IF Run(n) \in DOMAIN lookup.all_livings
                                         THEN lookup.all_livings[Run(n)]
                                         ELSE lookup.all_items[Run(n)]
    /\ (/\ Called
        /\ \E n \in 1..(Len(lookup.words) - 1) :
              n < NameWordLimit /\ JoinStr(SubSeq(lookup.words, 1, n)) \in DOMAIN before.exits)
       => (outcome.kind = "ParseError"
           /\ outcome.exc.msg = <<"What do you want to do with that?">>)

C8_Witness ==
    /\ lookup.done
    /\ lookup.words = <<"north", "gate">>
    /\ lookup.index = 1
    /\ DOMAIN lookup.all_livings = {"north", "north gate"}
    /\ lookup.found.name = "north"
    /\ lookup.found.wordcount = 1
    /\ Typed(<<"go", "north", "gate">>)
    /\ outcome.kind = "ParseError"

\* ------------------------------------------------------------------------
\* The quoted message
\* ------------------------------------------------------------------------
\* the line that is left when the quoted span m is taken out (line 1646)
WithoutSpan(cmd, m) ==
    IF m.found THEN SubSeq(cmd, 1, m.start - 1) \o SubSeq(cmd, m.end + 1, Len(cmd)) ELSE cmd

\* the words of the line that hold a quote character
WordsWithQuote(cmd) ==
    {Concat(SubSeq(cmd, x[1], x[2])) :
        x \in {y \in (1..Len(cmd)) \X (1..Len(cmd)) :
                  /\ y[1] <= y[2]
                  /\ \A k \in y[1]..y[2] : ~IsBlank(cmd[k])
                  /\ \E k \in y[1]..y[2] : IsQuote(cmd[k])}}

HasResult == outcome.kind \in {"returned", "NonSoulVerb"}

\* C11: when the line holds a quoted span, taking the message out of it does
\* not fail, and a parse that yields a result yields the trimmed text between
\* the first opening quote and the last quote of its kind as the message, and
\* args that are words of the line without the span, none of them holding a
\* quote character.
C11_QuotedMessageExact ==
    \A m \in {QuotedMessage(outcome.cmd)} :
        (Called /\ m.found) =>
            /\ outcome.kind # "AttributeError"
            /\ HasResult =>
                  /\ outcome.result.message = Concat(StripChunks(m.text))
                  /\ \A i \in 1..Len(outcome.result.args) :
                        /\ outcome.result.args[i] \in SeqToSet(Split(WithoutSpan(outcome.cmd, m)))
                        /\ outcome.result.args[i] \notin WordsWithQuote(outcome.cmd)

\* the words that are left when the leading qualifier and the skip word after
\* it are taken off (lines 1651-1659)
LeadingStripped(words) ==
    LET words1 == IF words # <<>> /\ words[1] \in ACTION_QUALIFIERS THEN Tail(words) ELSE words
    IN  IF words1 # <<>> /\ words1[1] \in skip_words THEN Tail(words1) ELSE words1

\* C12: when the line without its quoted span holds no words (it is empty or
\* only blanks), or no words are left after the leading qualifier and skip
\* word, the parse fails with ParseError "What?".
C12_NoWordsIsWhat ==
    \A m \in {QuotedMessage(outcome.cmd)} :
        (/\ Called
         /\ outcome.kind # "AttributeError"
         /\ LeadingStripped(Split(WithoutSpan(outcome.cmd, m))) = <<>>) =>
            (outcome.kind = "ParseError" /\ outcome.exc.msg = <<"What?">>)

\* ------------------------------------------------------------------------
\* The messages of a soul verb
\* ------------------------------------------------------------------------
Socialized == social.kind = "done"

\* C13: the target set process_verb_parsed returns is the set of the targets
\* of the parse result without the actor: the actor is never in it, and every
\* other target of the parse is.
C13_TargetsWithoutActor ==
    Socialized => social.who = SeqToSet(outcome.result.who_order) \ {Actor}

\* the text between the verb and \nWHO in the messages of the model's verbs
BeforeWho(verb) == IF verb = "wave" \/ verb = "smile" THEN " at " ELSE " "

\* the targets of the last parse, the actor as `self` and the others by title
TargetForms(self) ==
    LangJoin([i \in 1..Len(outcome.result.who_order) |->
                 IF outcome.result.who_order[i] = Actor THEN self
                 ELSE TitleOf[outcome.result.who_order[i]]])

\* the last do_socialize rendered a message with a \nWHO slot
RenderedWho ==
    /\ Socialized
    /\ outcome.result.who_order # <<>>
    /\ DOMAIN outcome.result.who_info # {}
    /\ outcome.result.qualifier \in {None, "fail"}

\* the sentence of the last parse's verb with who_text in its \nWHO slot, as
\* the actor reads it (second person) or as the others do (third person)
Sentence(second_person, who_text) ==
    LET verb == outcome.result.verb
        said == IF outcome.result.message = "" THEN ""
                ELSE " '" \o outcome.result.message \o "'"
        rest == BeforeWho(verb) \o who_text \o said
    IN  IF outcome.result.qualifier = None
        THEN (IF second_person THEN "You " \o verb ELSE TitleOf[Actor] \o " " \o verb \o "s")
                 \o rest \o "."
        ELSE (IF second_person THEN "You try to " ELSE TitleOf[Actor] \o " tries to ")
                 \o verb \o rest
                 \o (IF second_person THEN ", but fail miserably." ELSE ", but fails miserably.")

\* C14: in the actor's message the actor as a target reads "yourself", in the
\* room's message the actor's objective pronoun followed by "self"; a target
\* other than the actor reads as its title in both.
C14_ReflexiveAgreement ==
    RenderedWho =>
        /\ social.player_msg = Sentence(TRUE, TargetForms("yourself"))
        /\ social.room_msg = Sentence(FALSE, TargetForms(Objective(Actor) \o "self"))

\* the actor waves at themself and at Bob
C14_Witness ==
    /\ Typed(<<"wave", "me", "bob">>)
    /\ Socialized
    /\ social.player_msg = "You wave at yourself and Bob."
    /\ social.room_msg = "Dave waves at himself and Bob."
    /\ social.heard["o_alice"] = <<"Dave waves at himself and Bob.">>

\* the targets of the last parse as viewer reads them in the message for the
\* targets, were each target given a form of its own: "you" for the viewer,
\* the title for any other target
FormsFor(viewer) ==
    LangJoin([i \in 1..Len(outcome.result.who_order) |->
                 IF outcome.result.who_order[i] = viewer THEN "you"
                 ELSE TitleOf[outcome.result.who_order[i]]])

\* C15 as the specification has it: in the message for the targets the \nWHO
\* slot is the joined list of all targets, "you" for the target that reads
\* it and the title for every other target.
C15_TargetMessageNamesAll ==
    (RenderedWho /\ NoDuplicates(outcome.result.who_order)) =>
        \A viewer \in social.who \cap DOMAIN social.heard :
            social.heard[viewer] = <<Sentence(FALSE, FormsFor(viewer))>>

\* C15: in the message for the targets the \nWHO slot is the one word "you",
\* whatever the number of targets; every target is told that same message,
\* which names no other target.
C15_TargetMessageYou ==
    RenderedWho =>
        \A viewer \in social.who \cap DOMAIN social.heard :
            social.heard[viewer] = <<Sentence(FALSE, "you")>>

\* the actor waves at Bob and Carol: both are told the same message
C15_Witness ==
    /\ Typed(<<"wave", "bob", "carol">>)
    /\ Socialized
    /\ social.who = {"o_bob", "o_carol"}
    /\ social.heard["o_bob"] = <<"Dave waves at you.">>
    /\ social.heard["o_carol"] = <<"Dave waves at you.">>
    /\ social.heard["o_alice"] = <<"Dave waves at Bob and Carol.">>

\* ------------------------------------------------------------------------
\* The same line parsed again
\* ------------------------------------------------------------------------
\* the last call and the one before it were given the same line and external
\* verbs and began with the same remembered parse and the same world
SameInputs ==
    /\ previous_call # <<>>
    /\ previous_call[1].outcome.kind # "none"
    /\ previous_call[1].outcome.cmd = outcome.cmd
    /\ previous_call[1].outcome.external_verbs = outcome.external_verbs
    /\ previous_call[1].before.previously_parsed = before.previously_parsed
    /\ previous_call[1].before.livings = before.livings
    /\ previous_call[1].before.items = before.items
    /\ previous_call[1].before.exits = before.exits
    /\ previous_call[1].before.inventory = before.inventory

C17_NeverLockedAndOpened ==
    \A d \in 1..2 : ~(door.doors[d].locked /\ door.doors[d].opened)

\* the holders that hold the book
Holding == {x \in Holders : "o_book" \in Held.held[x]}

\* the last call was book.move(target, actor)
ItemMoved == place.call # <<>> /\ place.call[1] = "Item.move"

\* C18: Item.move is transactional: if it raised (a refusal by
\* allow_item_move, by the source's remove or by the target's insert, or a
\* failure in notify_moved) the book is held by the container it was in
\* before the call and by no other; if it returned, the book is held by the
\* target only and contained_in is the target.
C18_ItemMoveTransactional ==
    ItemMoved =>
        LET target == place.call[2]
            source == place.call[4]
        IN  IF place.exc # NoExc
            THEN /\ Holding = (IF source = None THEN {} ELSE {source})
                 /\ place.contained_in = source
            ELSE /\ Holding = {target}
                 /\ place.contained_in = target

\* the locations that have bob among their livings
BobIn == {x \in Locations : "o_bob" \in Whereabouts.livings[x]}

\* the last call was bob.move(target) with a Location as target
LivingMoved == place.call # <<>> /\ place.call[1] = "Living.move" /\ place.call[2] \in Locations

\* C19: Living.move is transactional: if the target location's insert raised,
\* bob is again among the livings of the location he was in, his location is
\* that one, and he is not among the target's livings; if the call returned,
\* bob is among the target's livings only and his location is the target.
C19_LivingMoveTransactional ==
    LivingMoved =>
        LET target == place.call[2]
            original == place.call[4]
        IN  IF place.exc # NoExc
            THEN /\ BobIn = (IF original = None THEN {} ELSE {original})
                 /\ place.location = original
            ELSE /\ BobIn = {target}
                 /\ place.location = target

\* bob, in the room, was moved to the town, whose insert refused
C19_Witness ==
    /\ LivingMoved
    /\ place.call[2] = "town"
    /\ place.call[4] = "room"
    /\ place.exc.kind = "ActionRefused"
    /\ "o_bob" \in livings
    /\ place.location = "room"

\* the last call of Living.parse raised "... is no longer around."
NoLongerAround ==
    /\ outcome.exc.kind = "ParseError"
    /\ outcome.exc.msg # <<>>
    /\ outcome.exc.msg[1] = "%s is no longer around."

\* the targets of the remembered parse that could not be reached when the
\* last call began
Unreachable ==
    IF before.previously_parsed = <<>> THEN {}
    ELSE {before.previously_parsed[1].who_order[i] :
             i \in 1..Len(before.previously_parsed[1].who_order)}
         \ (before.livings \cup before.items \cup before.inventory)

\* the last line told names who as the assumed referent
AssumedMeant(who) ==
    /\ told # <<>>
    /\ told[Len(told)][1] = "<dim>(By '%s', it is assumed you meant %s.)</>"
    /\ told[Len(told)][3] = TitleOf[who]

\* C20: whenever a call of parse fails because what a pronoun refers to is
\* no longer around, the actor has been told, in that call and before the
\* ParseError, the line "(By '<pronoun>', it is assumed you meant <title>.)"
\* naming a target of the remembered parse that cannot be reached any more,
\* the one the error speaks of; the line stays told after the failure.
C20_FeedbackBeforeFailure ==
    NoLongerAround =>
        \E who \in Unreachable :
           /\ AssumedMeant(who)
           /\ told[Len(told)][2] \in {"him", "it", "them"}
           /\ outcome.exc.msg[2] = Capital(Subjective(who))

\* bob was waved at, left, and "wave him" failed after the line naming him
C20_Witness ==
    /\ NoLongerAround
    /\ AssumedMeant("o_bob")
    /\ told[Len(told)][2] = "him"
    /\ "o_bob" \notin livings

\* what bob's last call of Living.parse gives when computed from bob's own
\* cells as they were when the call began
OwnSecond ==
    LivingParse(ContextFor("o_bob", Context(livings, items, exits, place.bob,
                                            second.before[1].previously_parsed, {})),
                second.before[1].previous_commandline, second.before[1].previous_parse,
                second.outcome.cmd)

\* bob's last call did what his own cells make it do
SecondOnOwn ==
    second.calls > 0 =>
        \E own \in {OwnSecond} :
           /\ second.outcome.kind = own.out.kind
           /\ second.outcome.result = own.out.result
           /\ second.outcome.exc = own.out.exc
           /\ second.told = own.out.told
           /\ second.previous_parse = own.previous_parse
           /\ second.previous_commandline = own.previous_commandline

\* the three cells of bob
SecondCells == <<second.previously_parsed, second.previous_parse, second.previous_commandline>>

IndexIn(who_order, who) ==
    (CHOOSE i \in 1..Len(who_order) :
        who_order[i] = who /\ \A j \in 1..(i - 1) : who_order[j] # who) - 1

\* C22: in every ParseResult that parse returns or hands over with
\* NonSoulVerb, every target of who_info is in who_order and its sequence
\* number is its index in who_order, also after "except"/"but" removed
\* targets and when a target is mentioned more than once.
C22_SequenceIsIndex ==
    HasResult =>
        \A t \in DOMAIN outcome.result.who_info :
           /\ InSeq(outcome.result.who_order, t)
           /\ outcome.result.who_info[t].sequence = IndexIn(outcome.result.who_order, t)

\* who a word refers to for the last call: the actor, the living or item of
\* that name, or what the pronoun resolves to from the remembered parse
Referents(c, word) ==
    IF word \in {"them", "him", "her", "it"}
    THEN IF c.mem = <<>> THEN {}
         ELSE LET m == match_previously_parsed(c, word)
              IN  IF m.exc # NoExc THEN {} ELSE {m.who_list[i][1] : i \in 1..Len(m.who_list)}
    ELSE IF word \in {"me", "myself", "self"} THEN {c.player}
    ELSE IF word \in DOMAIN c.all_livings THEN {c.all_livings[word]}
    ELSE IF word \in DOMAIN c.all_items THEN {c.all_items[word]}
    ELSE {}

\* the last line ends, after one "except"/"but", on a word that refers to
\* somebody, and the line without that word parses
EndsExcluding(words) ==
    /\ Len(words) >= 3
    /\ Cardinality({i \in 2..(Len(words) - 1) : words[i] \in {"except", "but"}}) = 1
    /\ \A i \in 1..(Len(words) - 1) : words[i] \notin {"everyone", "everybody", "all"}
    /\ Referents(LastContext, words[Len(words)]) # {}
    /\ SoulParse(LastContext, JoinWords(SubSeq(words, 1, Len(words) - 1))).kind = "returned"

\* C23: in exclusion mode a word that refers to an entity which is not among
\* the targets gathered so far changes nothing: the parse does not fail on
\* it and the targets are those of the line without the word, whether the
\* word is a name, "me" or a pronoun resolved from the remembered parse.
C23_ExcludingAbsentIsNoOp ==
    \A words \in {Split(outcome.cmd)} :
       (Called /\ EndsExcluding(words)) =>
           \A shorter \in {SoulParse(LastContext, JoinWords(SubSeq(words, 1, Len(words) - 1)))} :
              Referents(LastContext, words[Len(words)]) \cap SeqToSet(shorter.result.who_order) = {}
              => /\ outcome.kind = "returned"
                 /\ outcome.result.who_order = shorter.result.who_order
                 /\ outcome.result.who_info = shorter.result.who_info

\* how many of the words before place k are "except" or "but"
TogglesBefore(words, k) == Cardinality({i \in 1..(k - 1) : words[i] \in {"except", "but"}})

\* the last line has an "everyone" in exclusion mode, ends in include mode on
\* the name of a living or item that is there, and parses without that name
EndsIncludingAfterReset(words) ==
    /\ Len(words) >= 2
    /\ \E j \in 2..(Len(words) - 1) :
          /\ words[j] \in {"everyone", "everybody", "all"}
          /\ TogglesBefore(words, j) % 2 = 1
    /\ TogglesBefore(words, Len(words)) % 2 = 0
    /\ words[Len(words)] \in DOMAIN LastContext.all_livings \cup DOMAIN LastContext.all_items
    /\ SoulParse(LastContext, JoinWords(SubSeq(words, 1, Len(words) - 1))).kind = "returned"

\* C24: after an "everyone" in exclusion mode has cleared the targets and a
\* later "except"/"but" has switched back to include mode, a living or item
\* that is there and is named next is added to who_order and who_info, and
\* the parse does not fail on it.
C24_IncludeAfterReset ==
    \A words \in {Split(outcome.cmd)} :
       (Called /\ EndsIncludingAfterReset(words)) =>
           /\ outcome.kind = "returned"
           /\ \A who \in Referents(LastContext, words[Len(words)]) :
                 /\ InSeq(outcome.result.who_order, who)
                 /\ who \in DOMAIN outcome.result.who_info

\* the position, from i on, of the first word of a line with a message verb
\* that none of the rules before the message rule takes (lines 1723-1843),
\* 0 if they take every word
RECURSIVE FirstFree(_, _, _)
FirstFree(c, words, i) ==
    IF i > Len(words) THEN 0
    ELSE LET word == words[i]
             x == check_name_with_spaces(words, i, c.exits, EmptyDict)
             n == check_name_with_spaces(words, i, c.all_livings, c.all_items)
         IN  IF \/ word \in {"them", "him", "her", "it", "me", "myself", "self", "everyone",
                             "everybody", "all", "everything", "except", "but"}
                \/ word \in DOMAIN BODY_PARTS \cup ADVERBS
                \/ word \in DOMAIN c.all_livings \cup DOMAIN c.all_items
             THEN FirstFree(c, words, i + 1)
             ELSE IF x.obj # None THEN FirstFree(c, words, i + x.wordcount)
             ELSE IF n.obj # None THEN FirstFree(c, words, i + n.wordcount)
             ELSE i

\* the last line starts with a verb that takes a message
MessageLine(words) ==
    /\ Called
    /\ words # <<>>
    /\ words[1] \in DOMAIN VERBS
    /\ words[1] \notin outcome.external_verbs
    /\ IsMessageVerb(words[1])

\* the last line has no quoted message, its word k is the first one that no
\* other rule takes, and the words before it parse
MessageFrom(words, k) ==
    /\ MessageLine(words)
    /\ ~QuotedMessage(outcome.cmd).found
    /\ k > 0
    /\ SoulParse(LastContext, JoinWords(SubSeq(words, 1, k - 1))).kind = "returned"

\* C25: collecting the message is absorbing.  For a verb that takes a
\* message and a line without a quoted message, the first word no other rule
\* takes and all words after it are the message, in order and verbatim, and
\* are appended to args; targets, adverb and body part are those of the words
\* before it.  With a quoted message the message is the quoted text: no word
\* is collected.
C25_MessageAbsorbs ==
    \A words \in {Split(outcome.cmd)} :
       /\ \A k \in {FirstFree(LastContext, words, 2)} :
             MessageFrom(words, k) =>
                \A p \in {SoulParse(LastContext, JoinWords(SubSeq(words, 1, k - 1))).result} :
                   /\ HasResult
                   /\ outcome.result.message = JoinStr(SubSeq(words, k, Len(words)))
                   /\ outcome.result.args = p.args \o SubSeq(words, k, Len(words))
                   /\ outcome.result.who_order = p.who_order
                   /\ outcome.result.who_info = p.who_info
                   /\ outcome.result.adverb = p.adverb
                   /\ outcome.result.bodypart = p.bodypart
       /\ \A m \in {QuotedMessage(outcome.cmd)} :
             (MessageLine(words) /\ m.found /\ HasResult) =>
                outcome.result.message = Concat(StripChunks(m.text))

\* "tell bob hi bob": the second "bob" is part of the message, not a target
C25_Witness ==
    /\ Typed(<<"tell", "bob", "hi", "bob">>)
    /\ outcome.kind = "returned"
    /\ outcome.result.message = "hi bob"
    /\ outcome.result.who_order = <<"o_bob">>
    /\ outcome.result.args = <<"bob", "hi", "bob">>

\* the targets of the parse that was remembered when the last call began
PreviousTargets ==
    IF before.previously_parsed = <<>> THEN <<>> ELSE before.previously_parsed[1].who_order

\* found by the actor's item search or among the location's livings, when the
\* last call began
WasReachable(who) == who \in before.livings \cup before.items \cup before.inventory

\* the places in the previous targets of those that could not be reached
GonePlaces == {i \in 1..Len(PreviousTargets) : ~WasReachable(PreviousTargets[i])}

\* C26: "wave them" with a remembered parse: when all its targets can still
\* be reached they are the targets, in the same order; when one cannot, the
\* call fails with the ParseError about the first such target; when the
\* remembered parse had no targets the call fails with a ParseError.
C26_ThemIsAllPrevious ==
    (Typed(<<"wave", "them">>) /\ before.previously_parsed # <<>>) =>
        IF PreviousTargets = <<>> THEN outcome.kind = "ParseError"
        ELSE IF GonePlaces = {}
        THEN HasResult /\ outcome.result.who_order = PreviousTargets
        ELSE /\ outcome.kind = "ParseError"
             /\ \E i \in GonePlaces :
                   /\ \A j \in GonePlaces : i <= j
                   /\ outcome.exc.msg = <<"%s is no longer around.",
                                          Capital(Subjective(PreviousTargets[i]))>>

\* "wave bob book" was remembered and "wave them" has both as targets
C26_Witness ==
    /\ Typed(<<"wave", "them">>)
    /\ PreviousTargets = <<"o_bob", "o_book">>
    /\ HasResult
    /\ outcome.result.who_order = <<"o_bob", "o_book">>

\* the places in the previous targets of those whose objective pronoun is
\* the word (an exit's is "it")
MatchingPlaces(pronoun) ==
    {i \in 1..Len(PreviousTargets) : Objective(PreviousTargets[i]) = pronoun}

\* the directions by which the location had who as an exit when the last
\* call began
DirectionsTo(who) == {d \in DOMAIN before.exits : before.exits[d] = who}

\* C27: "wave him", "wave her", "wave it": with nothing remembered the call
\* fails with a ParseError; so it does when no previous target has the
\* pronoun as its objective pronoun.  Otherwise the first previous target
\* that has it decides: for "it" and an exit of the location it is the only
\* target and args holds a direction of it; a target in reach is the only
\* target; a target out of reach makes the call fail with the ParseError
\* "... is no longer around.", also when a later previous target matches.
C27_PronounIsFirstMatch ==
    \A pronoun \in {"him", "her", "it"} :
       Typed(<<"wave", pronoun>>) =>
          IF MatchingPlaces(pronoun) = {} THEN outcome.kind = "ParseError"
          ELSE \E i \in MatchingPlaces(pronoun) :
                  /\ \A j \in MatchingPlaces(pronoun) : i <= j
                  /\ IF pronoun = "it" /\ DirectionsTo(PreviousTargets[i]) # {}
                     THEN /\ HasResult
                          /\ outcome.result.who_order = <<PreviousTargets[i]>>
                          /\ Len(outcome.result.args) = 1
                          /\ outcome.result.args[1] \in DirectionsTo(PreviousTargets[i])
                     ELSE IF WasReachable(PreviousTargets[i])
                     THEN /\ HasResult
                          /\ outcome.result.who_order = <<PreviousTargets[i]>>
                     ELSE /\ outcome.kind = "ParseError"
                          /\ outcome.exc.msg = <<"%s is no longer around.",
                                                 Capital(Subjective(PreviousTargets[i]))>>

\* "wave bob me" was remembered, bob left, and "wave him" fails although the
\* actor is a later target that "him" fits
C27_Witness ==
    /\ Typed(<<"wave", "him">>)
    /\ PreviousTargets = <<"o_bob", Actor>>
    /\ "o_bob" \notin before.livings
    /\ outcome.kind = "ParseError"
    /\ outcome.exc.msg = <<"%s is no longer around.", "He">>

\* the n words from the index of the lookup on, joined by blanks
LookupRun(n) == JoinStr(SubSeq(lookup.words, lookup.index, lookup.index + n - 1))

\* the n words from the index on are a key and no shorter run is
ShortestKey(n) ==
    /\ lookup.index + n - 1 <= Len(lookup.words)
    /\ LookupRun(n) \in DOMAIN lookup.all_livings \cup DOMAIN lookup.all_items
    /\ \A k \in 1..(n - 1) :
          LookupRun(k) \notin DOMAIN lookup.all_livings \cup DOMAIN lookup.all_items

\* C28: check_name_with_spaces tries names of 1 up to 6 words: a key of up
\* to 6 words that starts at the index, no shorter run being a key, is
\* matched with its word count, and a key of 7 or more words is not matched.
C28_SixWordNames ==
    lookup.done =>
        \A n \in 1..MaxLongWords :
           ShortestKey(n) =>
              IF n <= 6
              THEN /\ lookup.found.obj # None
                   /\ lookup.found.name = LookupRun(n)
                   /\ lookup.found.wordcount = n
              ELSE lookup.found = NoMatch

\* C29: on a movement redirect of a line that ends with the exit's name, the
\* result NonSoulVerb carries has the empty string as unparsed: nothing of
\* the raw line follows the name, whether the line is the bare direction or
\* has "go"/"walk" or a qualifier before it.
C29_RedirectUnparsedIsRest ==
    (NamesExit /\ RedirectsTo(JoinStr(Direction))) => outcome.result.unparsed.rest = <<>>

\* a is b with some of its elements left out
RECURSIVE IsSubsequence(_, _)
IsSubsequence(a, b) ==
    IF a = <<>> THEN TRUE
    ELSE IF b = <<>> THEN FALSE
    ELSE IF Head(a) = Head(b) THEN IsSubsequence(Tail(a), Tail(b))
    ELSE IsSubsequence(a, Tail(b))

\* C30: in every result of parse, unrecognized is empty unless the verb of
\* the line is an external verb, and its words are words of args in the
\* same order.
C30_UnrecognizedOnlyExternal ==
    HasResult =>
        /\ RemainingWords[1] \notin outcome.external_verbs => outcome.result.unrecognized = <<>>
        /\ IsSubsequence(outcome.result.unrecognized, outcome.result.args)

\* "take xyzzy bob" with take an external verb: xyzzy is kept
C30_Witness ==
    /\ Typed(<<"take", "xyzzy", "bob">>)
    /\ "take" \in outcome.external_verbs
    /\ outcome.kind = "NonSoulVerb"
    /\ outcome.result.unrecognized = <<"xyzzy">>
    /\ outcome.result.args = <<"xyzzy", "bob">>

\* ------------------------------------------------------------------------
\* The person a verb needs
\* ------------------------------------------------------------------------
\* the message for a verb whose template needs a person and has none
NeedsPerson(verb) == ParseError(<<"The verb %s needs a person.", verb>>)

\* the template selected for the parse result holds \nWHO or \nPOSS
HasPersonSlot(parsed) ==
    \E i \in 1..Len(ActionPieces(parsed)) : ActionPieces(parsed)[i] \in {"\\nWHO", "\\nPOSS"}

\* the last do_socialize got a result of a verb of the table from Living.parse
RenderedVerb == Called /\ outcome.kind = "returned" /\ outcome.result.verb \in DOMAIN VERBS

RenderStep == calls' = calls /\ social' # social

NonLivingTarget(parsed) ==
    /\ parsed.verb \notin NONLIVING_OK_VERBS
    /\ \E i \in 1..Len(parsed.who_order) : ~IsLiving(parsed.who_order[i])

\* the parse result has a target that is an Exit
ExitAmongTargets(parsed) == \E i \in 1..Len(parsed.who_order) : IsExit(parsed.who_order[i])

\* C33: when Soul.parse returned a result for a soul command, Living.parse
\* raises NonSoulVerb carrying the result if the verb is not in
\* NONLIVING_OK_VERBS and a target is not a Living; otherwise it raises
\* ParseError "That doesn't make much sense." if a target is an Exit; it
\* returns the result only when neither holds.
C33_ClassifiedByTargetKind ==
    Called =>
        \A r \in {SoulParse(LastContext, outcome.cmd)} :
            (r.kind = "returned" /\ r.result.verb \notin outcome.external_verbs) =>
                /\ NonLivingTarget(r.result)
                       => outcome.kind = "NonSoulVerb" /\ outcome.result = r.result
                /\ (~NonLivingTarget(r.result) /\ ExitAmongTargets(r.result))
                       => /\ outcome.kind = "ParseError"
                          /\ outcome.exc = ParseError(<<"That doesn't make much sense.">>)
                /\ outcome.kind = "returned"
                       => /\ outcome.result = r.result
                          /\ ~NonLivingTarget(r.result)
                          /\ ~ExitAmongTargets(r.result)

\* ------------------------------------------------------------------------
\* Who is told what
\* ------------------------------------------------------------------------
\* C34: do_socialize_cmd tells every living of the actor's location exactly
\* one message: the actor the actor message, every target that
\* process_verb_parsed returned the target message, every other living the
\* room message; no living is told two of them.
C34_OneMessageEach ==
    Socialized =>
        /\ DOMAIN social.heard = livings
        /\ \A living \in livings :
              social.heard[living] =
                  <<IF living = Actor THEN social.player_msg
                    ELSE IF living \in social.who THEN social.target_msg[living]
                    ELSE social.room_msg>>

C34_Witness ==
    /\ Socialized
    /\ Actor \in livings
    /\ Actor \in SeqToSet(outcome.result.who_order)
    /\ "o_bob" \in social.who
    /\ "o_carol" \in livings \ social.who
    /\ social.heard["o_bob"] = <<social.target_msg["o_bob"]>>
    /\ social.heard["o_carol"] = <<social.room_msg>>
    /\ social.room_msg # social.target_msg["o_bob"]
    /\ social.player_msg # social.room_msg

\* ------------------------------------------------------------------------
\* Paired doors, and passing a door
\* ------------------------------------------------------------------------
\* C35: two doors linked by reverse_door have the same opened flag and the
\* same locked flag after any sequence of open, close, lock and unlock calls
\* on either of them, whether the calls went through or were refused.
C35_PairedInSync ==
    door.paired =>
        /\ door.doors[1].opened = door.doors[2].opened
        /\ door.doors[1].locked = door.doors[2].locked

C35_Witness ==
    /\ door.paired
    /\ door.call # <<>>
    /\ door.call[1] = "lock"
    /\ door.call[2] = 2
    /\ door.exc = NoExc
    /\ door.doors[1].locked
    /\ door.doors[2].locked

\* the last call was allow_passage on a door whose locked flag is set
PassedLocked ==
    /\ door.call # <<>>
    /\ door.call[1] = "allow_passage"
    /\ door.doors[door.call[2]].locked

\* C38: in every state reached by open, close, lock and unlock calls on a
\* bound door, allow_passage raises ActionRefused when the door's locked flag
\* is set.
C38_LockedNeverPassed ==
    PassedLocked => door.exc.kind = "ActionRefused"

\* ------------------------------------------------------------------------
\* Where a living is after Living.move
\* ------------------------------------------------------------------------
\* C37: after any sequence of Living.move calls between Locations, gone
\* through or failed, a living that was moved at least once is in the livings
\* set of exactly one Location, and that Location is its location attribute.
C37_InOneLocation ==
    LivingMoved => BobIn = {place.location}

C37_Witness ==
    /\ LivingMoved
    /\ place.call[2] = "town"
    /\ place.call[4] = "limbo"
    /\ place.exc # NoExc
    /\ BobIn = {"limbo"}
    /\ place.location = "limbo"

\* ------------------------------------------------------------------------
\* Binding an exit
\* ------------------------------------------------------------------------
\* the last call was Exit.bind and it raised LocationIntegrityError
BindRaised ==
    /\ place.call # <<>>
    /\ place.call[1] = "Exit.bind"
    /\ place.exc.kind = "LocationIntegrityError"

\* C39: when Exit.bind raises LocationIntegrityError because one of the
\* exit's directions is already among the location's exits, the location's
\* exits are what they were before the call: none of the exit's other
\* directions was added.
C39_BindAllOrNothing ==
    BindRaised => exits = before.exits

\* ------------------------------------------------------------------------
\* "again"
\* ------------------------------------------------------------------------
\* the last call was Living.parse("again")
TypedAgain == Typed(<<"again">>)

\* the last call did what parsing the given line would have done, and the
\* line is the one remembered afterwards
ParsedAs(line) ==
    \A r \in {LivingParse(LastContext, before.previous_commandline, before.previous_parse, line)} :
        /\ outcome.kind = r.out.kind
        /\ outcome.result = r.out.result
        /\ outcome.exc = r.out.exc
        /\ previous_parse = r.previous_parse
        /\ previous_commandline = <<line>>

\* the last call raised ActionRefused and left the actor as it was
RefusedUnchanged ==
    /\ outcome.kind = "ActionRefused"
    /\ outcome.exc = ActionRefused(<<"Can't repeat your previous action.">>)
    /\ told = <<>>
    /\ Snapshot = before

\* previous_commandline is never the literal "again"
NeverAgain == previous_commandline # <<<<"again">>>>

\* C36 as stated: Living.parse("again") parses the command line most
\* recently passed to parse, whether or not that parse succeeded, and raises
\* ActionRefused without changing any state when there is none;
\* previous_commandline is never the literal "again".
C36_AgainRepeatsLast ==
    /\ NeverAgain
    /\ TypedAgain =>
          IF before.previous_commandline = <<>> THEN RefusedUnchanged
          ELSE ParsedAs(before.previous_commandline[1])

\* C36, amended: Living.parse("again") parses the command line most recently
\* passed to parse when that line is not empty, whether or not that parse
\* succeeded, and raises ActionRefused without changing any state when there
\* is none or when it is the empty line; previous_commandline is never the
\* literal "again".
C36_AgainRepeatsLastNonEmpty ==
    /\ NeverAgain
    /\ TypedAgain =>
          IF before.previous_commandline \in {<<>>, <<<<>>>>} THEN RefusedUnchanged
          ELSE ParsedAs(before.previous_commandline[1])

C36_Witness ==
    /\ TypedAgain
    /\ calls = 3
    /\ before.previous_commandline = <<JoinWords(<<"xyzzy", "bob">>)>>
    /\ outcome.kind \notin {"returned", "ActionRefused", "none"}
    /\ previous_commandline = before.previous_commandline

\* ------------------------------------------------------------------------
\* Attacks that an aggressive verb provokes
\* ------------------------------------------------------------------------
\* the last do_socialize_cmd went through, with an aggressive verb
Provoked == Socialized /\ outcome.result.verb \in AGGRESSIVE_VERBS

\* the livings that started an attack, and how often a living did
Attackers == {social.attacks[i][1] : i \in 1..Len(social.attacks)}
AttacksBy(living) == Cardinality({i \in 1..Len(social.attacks) : social.attacks[i][1] = living})

\* the pending attack actions
QueuedAttacks == Cardinality({i \in 1..Len(social.pending) : social.pending[i] = "start_attack"})

\* C40: for an aggressive verb with a qualifier that is not negating,
\* do_socialize_cmd queues one pending action for every aggressive living of
\* the remaining targets, which when run makes that same living start
\* attacking the actor; a target that is not aggressive never starts an
\* attack, and with a negating qualifier no attack action is queued.
C40_AggressiveTargetsAttack ==
    Provoked =>
        IF outcome.result.qualifier \in NEGATING_QUALIFIERS
        THEN QueuedAttacks = 0 /\ social.attacks = <<>>
        ELSE /\ QueuedAttacks + Len(social.attacks) = Cardinality(social.who \cap AggressiveLivings)
             /\ \A i \in 1..Len(social.attacks) : social.attacks[i][2] = Actor
             /\ Attackers \subseteq social.who \cap AggressiveLivings
             /\ \A living \in Attackers : AttacksBy(living) = 1
             /\ social.pending = <<>> => Attackers = social.who \cap AggressiveLivings

====
